---- MODULE Spec2Model ----
(***************************************************************************)
(* Request correlation and sliding-window statistics of the QGIS server    *)
(* monitor (src/monitor.py): parse_qgis_log_line and add_to_slowest over   *)
(* the module-level per-pool dictionaries.                                 *)
(*                                                                         *)
(* Time is the wall clock time.time() at a resolution of one millisecond:  *)
(* `now` counts milliseconds, so int(now * 1000) of the source is `now`.   *)
(* A log line is represented by what the handler's substring tests and     *)
(* regular expressions extract from its text.                              *)
(***************************************************************************)
EXTENDS Integers, Sequences, FiniteSets, TLC

VARIABLES
    now,               \* time.time(), in milliseconds
    current_requests,  \* line 256: pool -> tracking key -> details
    response_times,    \* line 253: pool -> deque of (timestamp, elapsed)
    slowest_requests,  \* line 259: pool -> list of slow entries
    log_stats,         \* line 262: pool -> counters
    recent_issues,     \* line 266: pool -> deque of issues
    db_tasks,          \* background tasks started at line 444, in order
    ev,                \* history: what the last handler call did
    seen_map,          \* history: pool -> identifier -> last MAP: line
    done_getmap,       \* history: pool -> GETMAP completions in the window
    nlines,            \* history: number of lines handled
    stat_samples,      \* the deque calculate_response_stats reads
    stat_result,       \* the last call of calculate_response_stats
    log_file,          \* the file at a pool's log path: inode and content
    tail,              \* tail_log_file_fallback's locals for that pool
    delivered,         \* history: the texts handed to parser_func
    disk_ops,          \* history: appends and truncations of the file
    db,                \* the SQLite tables requests and system_metrics
    db_done,           \* number of tasks of db_tasks that have run
    db_env,            \* the host's UTC offset and the retention settings
    active,            \* lines 248-250: the three global *_active flags
    tasks,             \* the background tasks: where each is, its exceptions
    paths,             \* the pools whose log file exists (os.path.exists)
    observers,         \* history: number of clients that have connected
    clients,           \* the clients connected now
    emitted,           \* history: the last emit and the issues last sent
    stream             \* tail_journalctl's source of lines for a pool

\* the variables of calculate_response_stats
vars_stats == <<stat_samples, stat_result>>

\* the variables of tail_log_file_fallback and of the file it follows
vars_tail == <<log_file, tail, delivered, disk_ops>>

\* the variables of the line handler
vars_ingest == <<current_requests, response_times, slowest_requests,
                 log_stats, recent_issues, db_tasks, ev, seen_map,
                 done_getmap>>

\* the variables of the database functions
vars_db == <<db, db_done, db_env>>

\* the variables of the background tasks and of the socket events
vars_orch == <<active, tasks, paths, observers, clients, emitted, stream>>

\* what calculate_response_stats, the tail and the database functions
\* each leave alone besides the line handler's variables
aside_stats == <<vars_tail, vars_db, vars_orch>>

aside_tail == <<vars_stats, vars_db, vars_orch>>

aside_db == <<vars_stats, vars_tail, vars_orch>>

\* the variables the line handler does not touch
vars_aside == <<vars_stats, vars_tail, vars_db, vars_orch>>

vars == <<now, current_requests, response_times, slowest_requests,
          log_stats, recent_issues, db_tasks, ev, seen_map, done_getmap,
          nlines, vars_aside>>

(* ------------------------------------------------------------------ *)
(* Configuration (src/monitor.py:85-109), scaled down so that the      *)
(* capacities, the window and the timeout are reached within the       *)
(* bounds of the model.  Times are in clock ticks (milliseconds).      *)
(* ------------------------------------------------------------------ *)

\* RESPONSE_TIMES_MAXLEN = 10000 in the source (line 87)
RESPONSE_TIMES_MAXLEN == 2

\* RECENT_ISSUES_MAXLEN = 20 in the source (line 90)
RECENT_ISSUES_MAXLEN == 2

\* SLOWEST_REQUESTS_COUNT = 5 in the source (line 93)
SLOWEST_REQUESTS_COUNT == 2

\* SLOWEST_REQUESTS_WINDOW = 600 s in the source (line 96)
SLOWEST_REQUESTS_WINDOW == 1

\* REQUEST_TRACKING_TIMEOUT = 300 s in the source (line 109)
REQUEST_TRACKING_TIMEOUT == 1

(* Bounds of the model *)

\* the clock stops advancing at MaxTime
MaxTime == 2

\* lines processed in one behaviour of Spec
MaxLines == 3

\* lines processed in one behaviour of SpecRecycle
MaxRecycleLines == 5

\* lines processed in one behaviour of SpecSlowest
MaxSlowLines == 8

\* Python's None; every string of the model is a sequence of tokens
None == <<"None">>

\* re.search(r'(\d+)\s*ms', line) found nothing
NoMatch == 0 - 1

\* the configured QGIS pools (two of the three of QGIS_POOLS)
POOL_NAMES == {"qgis-pool1", "qgis-pool2"}

\* lines 262-267: the keys of log_stats and recent_issues, the pools and
\* the PHP-FPM log
LogNames == POOL_NAMES \cup {"php-fpm"}

\* lines 262-263: the counters of the pools and of the PHP-FPM log
InitLogStats ==
    [p \in LogNames |->
        IF p \in POOL_NAMES
        THEN [requests_total |-> 0, errors |-> 0, warnings |-> 0]
        ELSE [errors |-> 0, warnings |-> 0]]

(* ------------------------------------------------------------------ *)
(* Strings as sequences of one-character strings                       *)
(* ------------------------------------------------------------------ *)

DigitChars == <<"0", "1", "2", "3", "4", "5", "6", "7", "8", "9">>

DigitVal(c) == CHOOSE d \in 0..9 : DigitChars[d + 1] = c

\* str(n) of a non-negative integer
RECURSIVE DecStr(_)
DecStr(n) ==
    IF n < 10 THEN <<DigitChars[n + 1]>>
    ELSE DecStr(n \div 10) \o <<DigitChars[(n % 10) + 1]>>

\* int(s) of a string of digits
RECURSIVE ParseInt(_)
ParseInt(s) ==
    IF s = <<>> THEN 0
    ELSE ParseInt(SubSeq(s, 1, Len(s) - 1)) * 10 + DigitVal(s[Len(s)])

\* s.startswith(pre)
StartsWith(s, pre) ==
    /\ Len(s) >= Len(pre)
    /\ SubSeq(s, 1, Len(pre)) = pre

\* sub in s
Contains(s, sub) ==
    \E i \in 1..(Len(s) - Len(sub) + 1) : SubSeq(s, i, i + Len(sub) - 1) = sub

\* position of the last occurrence of c in s, 0 when there is none
LastIndexOf(s, c) ==
    IF \E i \in 1..Len(s) : s[i] = c
    THEN CHOOSE i \in 1..Len(s) :
            s[i] = c /\ \A j \in (i + 1)..Len(s) : s[j] # c
    ELSE 0

\* position of the first occurrence of c in s
FirstIndexOf(s, c) ==
    CHOOSE i \in 1..Len(s) : s[i] = c /\ \A j \in 1..(i - 1) : s[j] # c

(* ------------------------------------------------------------------ *)
(* Tracking keys: f"{request_id}_{int(now * 1000)}"                    *)
(* ------------------------------------------------------------------ *)

TrackingKey(request_id, t) == request_id \o <<"_">> \o DecStr(t)

\* int(k.split('_')[1])
KeyMs(k) == ParseInt(SubSeq(k, FirstIndexOf(k, "_") + 1, Len(k)))

\* [k for k in current_requests[log_name].keys() if k.startswith(f"{request_id}_")]
MatchingKeys(cur, request_id) ==
    {k \in DOMAIN cur : StartsWith(k, request_id \o <<"_">>)}

\* MostRecentKey with min() for max(): the oldest matching key
MostRecentKey_Oldest(keys) ==
    CHOOSE k \in keys : \A j \in keys : KeyMs(k) <= KeyMs(j)

\* line 368: max(matching_keys, key=lambda k: int(k.split('_')[1]))
MostRecentKey(keys) ==
    CHOOSE k \in keys : \A j \in keys : KeyMs(k) >= KeyMs(j)

\* ClosingKey with min() for max(): the oldest matching key is closed
ClosingKey_Oldest(keys) ==
    CHOOSE k \in keys : \A j \in keys : KeyMs(k) <= KeyMs(j)

\* line 430: the key a completion closes,
\* max(matching_keys, key=lambda k: int(k.split('_')[1]))
ClosingKey(keys) ==
    CHOOSE k \in keys : \A j \in keys : KeyMs(k) >= KeyMs(j)

\* any(request_id in k for k in current_requests[log_name].keys())
AnyKeyContains(cur, request_id) ==
    \E k \in DOMAIN cur : Contains(k, request_id)

\* the dictionary stored under a new tracking key
NewDetails(request_id, t) ==
    [map |-> None, user |-> None, layers |-> None, request_type |-> None,
     start_time |-> t, raw_request_id |-> request_id]

\* d[k] = v on a dictionary held as a function
DictSet(d, k, v) == [x \in DOMAIN d \cup {k} |-> IF x = k THEN v ELSE d[x]]

\* DictDel with the deletion left out
DictDel_Kept(d, k) == d

\* del d[k]
DictDel(d, k) == [x \in DOMAIN d \ {k} |-> d[x]]

(* ------------------------------------------------------------------ *)
(* Field extraction                                                    *)
(* ------------------------------------------------------------------ *)

\* map_path.split('/')[-1].replace('.qgs', ''), a path being a sequence of
\* tokens: "/" separators, name parts and the ".qgs" extension
ProjectName(map_path) ==
    LET last == SubSeq(map_path, LastIndexOf(map_path, "/") + 1, Len(map_path))
    IN  SelectSeq(last, LAMBDA tok : tok # ".qgs")

\* str.upper() on the tokens the model feeds as request types
UpperToken(tok) ==
    CASE tok = "GetMap" -> "GETMAP"
      [] tok = "GetCapabilities" -> "GETCAPABILITIES"
      [] OTHER -> tok

\* s.upper()
Upper(s) == [i \in DOMAIN s |-> UpperToken(s[i])]

(* ------------------------------------------------------------------ *)
(* Bounded buffers and the slowest-list                                *)
(* ------------------------------------------------------------------ *)

\* DequeAppend on a plain list: nothing is evicted
DequeAppend_Unbounded(dq, x, maxlen) == Append(dq, x)

\* deque(maxlen=maxlen).append(x)
DequeAppend(dq, x, maxlen) ==
    IF Len(dq) >= maxlen THEN Append(Tail(dq), x) ELSE Append(dq, x)

\* insertion of x into a list sorted descending by r[1], after every entry
\* whose key is >= x's key (list.sort is stable, also with reverse=True)
InsertDesc(sorted, x) ==
    LET n == Cardinality({i \in 1..Len(sorted) : sorted[i][1] >= x[1]})
    IN  SubSeq(sorted, 1, n) \o <<x>> \o SubSeq(sorted, n + 1, Len(sorted))

\* SortDesc without reverse=True: ascending, stable
RECURSIVE SortDesc_Ascending(_)
SortDesc_Ascending(lst) ==
    IF lst = <<>> THEN <<>>
    ELSE LET rest == SortDesc_Ascending(SubSeq(lst, 1, Len(lst) - 1))
             x == lst[Len(lst)]
             n == Cardinality({i \in 1..Len(rest) : rest[i][1] <= x[1]})
         IN  SubSeq(rest, 1, n) \o <<x>> \o SubSeq(rest, n + 1, Len(rest))

\* lst.sort(reverse=True, key=lambda x: x[0])
RECURSIVE SortDesc(_)
SortDesc(lst) ==
    IF lst = <<>> THEN <<>>
    ELSE InsertDesc(SortDesc(SubSeq(lst, 1, Len(lst) - 1)), lst[Len(lst)])

\* Truncate with the slice left out
Truncate_None(lst, n) == lst

\* lst[:n]
Truncate(lst, n) == SubSeq(lst, 1, IF Len(lst) < n THEN Len(lst) ELSE n)

\* WithinWindow with the filter left out
WithinWindow_All(slow, cutoff) == slow

\* lines 495-498: the entries whose timestamp r[1] is not before the cutoff
WithinWindow(slow, cutoff) == SelectSeq(slow, LAMBDA r : r[2] >= cutoff)

\* add_to_slowest: the new value of slowest_requests[log_name]
add_to_slowest(slow, response_time, timestamp, request_id, details) ==
    LET request_type == details.request_type
        cutoff == timestamp - SLOWEST_REQUESTS_WINDOW
        kept == WithinWindow(slow, cutoff)
        request_entry ==
            <<response_time, timestamp, request_id,
              [map |-> details.map, user |-> details.user,
               layers |-> details.layers,
               request_type |-> details.request_type]>>
    IN  IF request_type = None THEN slow
        ELSE IF Upper(request_type) # <<"GETMAP">> THEN slow
        ELSE Truncate(SortDesc(Append(kept, request_entry)),
                      SLOWEST_REQUESTS_COUNT)

(* ------------------------------------------------------------------ *)
(* parse_qgis_log_line, in the order of its statements                 *)
(* ------------------------------------------------------------------ *)

\* line 529: 'ERROR' in line or 'CRITICAL' in line or 'Fatal' in line
IsPhpErrorLine(line) == line.marks \cap {"ERROR", "CRITICAL", "Fatal"} # {}

\* line 330: 'ERROR' in line or 'CRITICAL' in line
IsErrorLine(line) == line.marks \cap {"ERROR", "CRITICAL"} # {}

\* lines 326, 333, 524, 531: the slice [:200] of the stored message
MESSAGE_CHARS == 200

\* line.strip()[:200], as the number of characters stored; line.chars is
\* the length of the line without its surrounding white space
Message(line) ==
    IF line.chars > MESSAGE_CHARS THEN MESSAGE_CHARS ELSE line.chars

\* one appended issue (lines 324-328, 331-335, 522-526, 529-533)
Issue(t, level, line) ==
    [timestamp |-> t, level |-> level, message |-> Message(line)]

\* the severity scan with two independent tests instead of if / elif
SeverityScan_Both(line, stats, issues, t) ==
    LET warned == "WARN" \in line.marks
        failed == line.marks \cap {"ERROR", "CRITICAL"} # {}
        first  == IF warned
                  THEN DequeAppend(issues, Issue(t, "WARNING", line),
                                   RECENT_ISSUES_MAXLEN)
                  ELSE issues
    IN  [stats |-> [stats EXCEPT
                      !.warnings = IF warned THEN @ + 1 ELSE @,
                      !.errors = IF failed THEN @ + 1 ELSE @],
         issues |-> IF failed
                    THEN DequeAppend(first, Issue(t, "ERROR", line),
                                     RECENT_ISSUES_MAXLEN)
                    ELSE first]

\* lines 323-336: the severity scan; returns the counters and the issues
SeverityScan(line, stats, issues, t) ==
    IF "WARN" \in line.marks
    THEN [stats |-> [stats EXCEPT !.warnings = @ + 1],
          issues |-> DequeAppend(issues, Issue(t, "WARNING", line),
                        RECENT_ISSUES_MAXLEN)]
    ELSE IF IsErrorLine(line)
    THEN [stats |-> [stats EXCEPT !.errors = @ + 1],
          issues |-> DequeAppend(issues, Issue(t, "ERROR", line),
                        RECENT_ISSUES_MAXLEN)]
    ELSE [stats |-> stats, issues |-> issues]

\* line 345: detection of a new request
IsNewRequest(cur, line) ==
    \/ "accepted" \in line.marks
    \/ /\ "MAP:" \in line.marks
       /\ ~AnyKeyContains(cur, line.request_id)

\* FindOrCreateKey without the creation of lines 371-380: a line that is
\* not a new request and finds no key leaves the dictionary as it is
FindOrCreateKey_FindOnly(cur, line, t) ==
    LET fresh == TrackingKey(line.request_id, t)
        matching_keys == MatchingKeys(cur, line.request_id)
    IN  IF IsNewRequest(cur, line)
        THEN [cur |-> DictSet(cur, fresh, NewDetails(line.request_id, t)),
              key |-> fresh]
        ELSE IF matching_keys # {}
        THEN [cur |-> cur, key |-> MostRecentKey(matching_keys)]
        ELSE [cur |-> cur, key |-> fresh]

\* lines 350-380: find or create the tracking key; returns the dictionary
\* and the key
FindOrCreateKey(cur, line, t) ==
    LET fresh == TrackingKey(line.request_id, t)
        matching_keys == MatchingKeys(cur, line.request_id)
    IN  IF IsNewRequest(cur, line)
        THEN [cur |-> DictSet(cur, fresh, NewDetails(line.request_id, t)),
              key |-> fresh]
        ELSE IF matching_keys # {}
        THEN [cur |-> cur, key |-> MostRecentKey(matching_keys)]
        ELSE [cur |-> DictSet(cur, fresh, NewDetails(line.request_id, t)),
              key |-> fresh]

\* lines 383-409: the if/elif chain that stores one field of the line
StoreField(cur, key, line) ==
    IF "MAP:" \in line.marks
    THEN IF line.map_path # None
         THEN [cur EXCEPT ![key].map = ProjectName(line.map_path)]
         ELSE cur
    ELSE IF "LIZMAP_USER:" \in line.marks
    THEN IF line.user # None
         THEN [cur EXCEPT ![key].user = line.user]
         ELSE cur
    ELSE IF "LAYERS:" \in line.marks
    THEN IF line.layers # None
         THEN [cur EXCEPT ![key].layers = line.layers]
         ELSE cur
    ELSE IF "REQUEST:" \in line.marks
    THEN IF line.request # None
         THEN [cur EXCEPT ![key].request_type = Upper(line.request)]
         ELSE cur
    ELSE cur

\* lines 339-409
TrackRequest(cur, line, t) ==
    IF line.request_id = None THEN cur
    ELSE LET fc == FindOrCreateKey(cur, line, t)
         IN  StoreField(fc.cur, fc.key, line)

\* IsCompletion with the test of line 419 left out
IsCompletion_AnyElapsed(line) ==
    /\ line.request_id # None
    /\ "finished" \in line.marks
    /\ line.ms # NoMatch

\* lines 412-419: the line is a completion with a positive elapsed time
IsCompletion(line) ==
    /\ line.request_id # None
    /\ "finished" \in line.marks
    /\ line.ms # NoMatch
    /\ line.ms > 0

\* IsSaved with the GETMAP test left out: every typed request is saved
IsSaved_AnyType(details) == details.request_type # None

\* lines 436-455: the request is handed to save_request_to_db
IsSaved(details) ==
    /\ details.request_type # None
    /\ Upper(details.request_type) = <<"GETMAP">>

\* lines 444-453: the arguments of the background save
SaveArgs(log_name, details, response_time, request_id) ==
    [pool |-> log_name, project |-> details.map, user |-> details.user,
     layers |-> details.layers, request_type |-> details.request_type,
     response_time_ms |-> response_time, request_id |-> request_id]

\* ToDelete with the timeout taken as seconds against a clock in milliseconds
ToDelete_Seconds(cur, t) ==
    {k \in DOMAIN cur :
        cur[k].start_time < t - REQUEST_TRACKING_TIMEOUT * 1000}

\* ToDelete with <= for <: an entry exactly as old as the timeout goes too
ToDelete_Inclusive(cur, t) ==
    {k \in DOMAIN cur : cur[k].start_time <= t - REQUEST_TRACKING_TIMEOUT}

\* lines 469-475: the keys the abandonment sweep deletes
ToDelete(cur, t) ==
    {k \in DOMAIN cur : cur[k].start_time < t - REQUEST_TRACKING_TIMEOUT}

\* Sweep deleting nothing
Sweep_None(cur, t) == cur

\* lines 468-475
Sweep(cur, t) == [k \in DOMAIN cur \ ToDelete(cur, t) |-> cur[k]]

\* history of the MAP: lines: the project of the last MAP: line of an
\* identifier and the key it was stored under; forgotten when the identifier
\* is accepted anew and when a completion closes an entry of the identifier
SeenAfter(seen, cur, line, t) ==
    IF line.request_id = None THEN seen
    ELSE IF IsCompletion(line) THEN [seen EXCEPT ![line.request_id] = <<>>]
    ELSE IF "MAP:" \in line.marks /\ line.map_path # None
    THEN [seen EXCEPT ![line.request_id] =
            <<[project |-> ProjectName(line.map_path),
               key |-> FindOrCreateKey(cur, line, t).key]>>]
    ELSE IF "accepted" \in line.marks
    THEN [seen EXCEPT ![line.request_id] = <<>>]
    ELSE seen

\* history of the GETMAP completions: (elapsed, time) of those completed
\* not before t - SLOWEST_REQUESTS_WINDOW and of the one completed at t,
\* ranked by elapsed time, the slowest first
DoneAfter(done, ms, t) ==
    LET kept == SelectSeq(done, LAMBDA e : e[2] >= t - SLOWEST_REQUESTS_WINDOW)
        n == Cardinality({i \in 1..Len(kept) : kept[i][1] >= ms})
    IN  SubSeq(kept, 1, n) \o <<(<<ms, t>>)>> \o SubSeq(kept, n + 1, Len(kept))

\* one counter record shared by all logs
SetLog_Shared(container, log_name, value) ==
    [p \in DOMAIN container |-> value]

\* lines 325, 332, 421: log_stats[log_name][...] += 1 replaces the entry
\* of log_name in the dict
SetLog(container, log_name, value) ==
    [container EXCEPT ![log_name] = value]

\* the completion is not counted
CountCompletion_Skipped(stats) == stats

\* line 421: log_stats[log_name]['requests_total'] += 1
CountCompletion(stats) == [stats EXCEPT !.requests_total = @ + 1]

\* line 420: response_times[log_name].append((now, response_time)), the
\* first statement of the completion branch
AppendSample(line, log_name) ==
    response_times' =
       IF IsCompletion(line)
       THEN [response_times EXCEPT ![log_name] =
               DequeAppend(@, <<now, line.ms>>, RESPONSE_TIMES_MAXLEN)]
       ELSE response_times

\* lines 315-477 without line 420: what parse_qgis_log_line(line, log_name)
\* does at time.time() = now besides appending the sample
AfterSample(line, log_name) ==
    LET sev == SeverityScan(line, log_stats[log_name],
                            recent_issues[log_name], now)
        cur1 == TrackRequest(current_requests[log_name], line, now)
        matching_keys == MatchingKeys(cur1, line.request_id)
    IN  /\ seen_map' = [seen_map EXCEPT ![log_name] =
               SeenAfter(@, current_requests[log_name], line, now)]
        /\ log_stats' = SetLog(log_stats, log_name,
               IF IsCompletion(line)
               THEN CountCompletion(sev.stats)
               ELSE sev.stats)
        /\ recent_issues' = [recent_issues EXCEPT ![log_name] = sev.issues]
        /\ IF IsCompletion(line)
           THEN \* lines 419-466: counter, close, return True
                /\ IF matching_keys # {}
                   THEN LET tracking_key == ClosingKey(matching_keys)
                            details == cur1[tracking_key]
                        IN  /\ db_tasks' =
                                  IF IsSaved(details)
                                  THEN Append(db_tasks,
                                         SaveArgs(log_name, details, line.ms,
                                                  line.request_id))
                                  ELSE db_tasks
                            /\ slowest_requests' =
                                  [slowest_requests EXCEPT ![log_name] =
                                     add_to_slowest(@, line.ms, now,
                                                    line.request_id, details)]
                            /\ current_requests' =
                                  [current_requests EXCEPT ![log_name] =
                                     DictDel(cur1, tracking_key)]
                            /\ ev' = [log_name |-> log_name, line |-> line,
                                      completed |-> <<[key |-> tracking_key,
                                                       details |-> details]>>,
                                      swept |-> {}]
                            /\ done_getmap' =
                                  IF details.request_type = <<"GETMAP">>
                                  THEN [done_getmap EXCEPT ![log_name] =
                                          DoneAfter(@, line.ms, now)]
                                  ELSE done_getmap
                   ELSE \* line 464: no matching key
                        /\ current_requests' =
                              [current_requests EXCEPT ![log_name] = cur1]
                        /\ ev' = [log_name |-> log_name, line |-> line,
                                  completed |-> <<>>, swept |-> {}]
                        /\ UNCHANGED <<db_tasks, slowest_requests, done_getmap>>
           ELSE \* lines 468-477: sweep, return False
                /\ current_requests' =
                      [current_requests EXCEPT ![log_name] = Sweep(cur1, now)]
                /\ ev' = [log_name |-> log_name, line |-> line,
                          completed |-> <<>>, swept |-> ToDelete(cur1, now)]
                /\ UNCHANGED <<slowest_requests, db_tasks, done_getmap>>

\* parse_qgis_log_line(line, log_name) at time.time() = now
parse_qgis_log_line(line, log_name) ==
    /\ AppendSample(line, log_name)
    /\ AfterSample(line, log_name)

(* ------------------------------------------------------------------ *)
(* Log lines fed to the handler                                        *)
(* ------------------------------------------------------------------ *)

\* raw request identifiers "4" and "14" (the digits inside [...])
RawIds == {<<"4">>, <<"1", "4">>}

\* the paths after MAP:
MapPaths == {<<"/", "srv", "/", "alpha", ".qgs">>, <<"beta", ".qgs">>}

\* the number of characters of an ordinary log line
SHORT_CHARS == 40

\* what the handler extracts from a line: the bracketed identifier, the
\* markers its text contains, the regular expressions' groups (None when a
\* marker is there and its expression does not match), the elapsed time
\* and the number of characters of the stripped line
Line(request_id, marks, map_path, user, layers, request, ms) ==
    [request_id |-> request_id, marks |-> marks, map_path |-> map_path,
     user |-> user, layers |-> layers, request |-> request, ms |-> ms,
     chars |-> SHORT_CHARS]

\* the same line with text of n characters
OfChars(line, n) == [line EXCEPT !.chars = n]

AcceptedLine(request_id) ==
    Line(request_id, {"accepted"}, None, None, None, None, NoMatch)

MapLine(request_id, map_path) ==
    Line(request_id, {"MAP:"}, map_path, None, None, None, NoMatch)

UserLine(request_id, user) ==
    Line(request_id, {"LIZMAP_USER:"}, None, user, None, None, NoMatch)

LayersLine(request_id, layers) ==
    Line(request_id, {"LAYERS:"}, None, None, layers, None, NoMatch)

RequestLine(request_id, request) ==
    Line(request_id, {"REQUEST:"}, None, None, None, request, NoMatch)

FinishedLine(request_id, ms) ==
    Line(request_id, {"finished"}, None, None, None, None, ms)

OtherLine(request_id, marks) ==
    Line(request_id, marks, None, None, None, None, NoMatch)

\* the lines of Spec: for identifier "4" an accepted marker, a project, the
\* request types, completions with and without a usable elapsed time and a
\* line with no marker; for identifier "14" an accepted marker and a
\* completion; and a warning without identifier
Lines ==
    {AcceptedLine(r) : r \in RawIds}
    \cup {FinishedLine(r, 1) : r \in RawIds}
    \cup {MapLine(<<"4">>, <<"/", "srv", "/", "alpha", ".qgs">>),
          RequestLine(<<"4">>, <<"GetMap">>),
          RequestLine(<<"4">>, <<"GetCapabilities">>),
          FinishedLine(<<"4">>, NoMatch), FinishedLine(<<"4">>, 0),
          OtherLine(<<"4">>, {}),
          OtherLine(None, {"WARN"})}

\* the lines of SpecRecycle: one identifier opened repeatedly, its fields
\* (MAP: also with no path after it), its completion, and an error without
\* identifier
RecycleLines ==
    {AcceptedLine(<<"4">>), FinishedLine(<<"4">>, 1),
     UserLine(<<"4">>, <<"alice">>), LayersLine(<<"4">>, <<"roads">>),
     OtherLine(None, {"ERROR"})}
    \cup {MapLine(<<"4">>, m) : m \in MapPaths \cup {None}}

\* the lines of SpecSlowest: one identifier, its request type and its
\* completions
SlowLines ==
    {RequestLine(<<"4">>, <<"GetMap">>),
     FinishedLine(<<"4">>, 1), FinishedLine(<<"4">>, 2)}

\* Spec, SpecRecycle and SpecSlowest feed one pool; SpecPools and
\* SpecCount feed both
FocusPools == {"qgis-pool1"}

(* ------------------------------------------------------------------ *)
(* The state machine                                                   *)
(* ------------------------------------------------------------------ *)

\* no call of calculate_response_stats was made
InitStats ==
    /\ stat_samples = <<>>
    /\ stat_result = <<>>

\* the log file holds one line written before the monitor started; no
\* tail task runs
InitTail ==
    /\ log_file = [present |-> TRUE, inode |-> 1,
                   data |-> <<"WARNING", "\n">>, retired |-> <<>>]
    /\ tail = [open |-> FALSE, pos |-> 0, current_inode |-> 0,
               current_size |-> 0, last_rotation_check |-> 0,
               line_count |-> 0]
    /\ delivered = <<>>
    /\ disk_ops = [appends |-> 0, truncations |-> 0, shrunk |-> FALSE,
                   rotations |-> 0, stat_errors |-> <<>>, reopen |-> <<>>]

\* lines 140-184: the tables are empty and no write was tried; the host
\* runs on UTC and both tables are kept for one day
InitDb ==
    /\ db = [requests |-> <<>>, system_metrics |-> <<>>, last |-> "none",
             after_line |-> 0, sweeps |-> 0, removed |-> 0, reported |-> 0]
    /\ db_done = 0
    /\ db_env = [utc_offset |-> 0, request_retention_days |-> 1,
                 system_metrics_retention_days |-> 1]

\* the background tasks and what they run
Threads == {"monitoring_thread", "log_monitoring_thread", "cleanup_thread"}

\* a tail task is named by its pool
TaskNames == POOL_NAMES \cup Threads

\* the four events of the /monitoring namespace
EventKinds ==
    {"metrics_update", "stats_update", "slowest_requests", "recent_issues"}

\* lines 248-250: no task runs, no client has connected, nothing was
\* emitted; every pool's log file exists
InitOrch ==
    /\ active = [t \in Threads |-> FALSE]
    /\ tasks = [t \in TaskNames |->
                  [state |-> "none", errors |-> 0, starts |-> 0]]
    /\ paths = POOL_NAMES
    /\ observers = 0
    /\ clients = 0
    /\ emitted = [by |-> "none", kinds |-> {},
                  issues |-> [p \in LogNames |-> <<>>],
                  stats |-> [p \in POOL_NAMES |->
                               [total_requests |-> 0, count |-> 0]]]
    /\ stream = [source |-> "none", switches |-> 0]

\* the initial values of the variables the line handler does not touch
InitAside == InitStats /\ InitTail /\ InitDb /\ InitOrch

\* lines 248-267: the module-level state; nothing was read yet
Init ==
    /\ now = 0
    /\ current_requests = [p \in POOL_NAMES |-> <<>>]
    /\ response_times = [p \in POOL_NAMES |-> <<>>]
    /\ slowest_requests = [p \in POOL_NAMES |-> <<>>]
    /\ log_stats = InitLogStats
    /\ recent_issues = [p \in LogNames |-> <<>>]
    /\ db_tasks = <<>>
    /\ ev = [log_name |-> "", line |-> OtherLine(None, {}),
             completed |-> <<>>, swept |-> {}]
    /\ done_getmap = [p \in POOL_NAMES |-> <<>>]
    /\ seen_map = [p \in POOL_NAMES |-> [r \in RawIds |-> <<>>]]
    /\ nlines = 0
    /\ InitAside

\* the wall clock advances by one millisecond
Tick ==
    /\ now < MaxTime
    /\ now' = now + 1
    /\ UNCHANGED <<current_requests, response_times, slowest_requests,
                   log_stats, recent_issues, db_tasks, ev, seen_map,
                   done_getmap, nlines, vars_aside>>

\* a pool's tail hands one line to parse_qgis_log_line (line 767)
QgisLine ==
    /\ nlines < MaxLines
    /\ \E log_name \in FocusPools, line \in Lines :
          parse_qgis_log_line(line, log_name)
    /\ nlines' = nlines + 1
    /\ UNCHANGED <<now, vars_aside>>

\* the same handler on the lines of SlowLines
SlowLine ==
    /\ nlines < MaxSlowLines
    /\ \E log_name \in FocusPools, line \in SlowLines :
          parse_qgis_log_line(line, log_name)
    /\ nlines' = nlines + 1
    /\ UNCHANGED <<now, vars_aside>>

\* the same handler on the lines of RecycleLines
RecycleLine ==
    /\ nlines < MaxRecycleLines
    /\ \E log_name \in FocusPools, line \in RecycleLines :
          parse_qgis_log_line(line, log_name)
    /\ nlines' = nlines + 1
    /\ UNCHANGED <<now, vars_aside>>

Next == QgisLine \/ Tick

Spec == Init /\ [][Next]_vars

NextRecycle == RecycleLine \/ Tick

SpecRecycle == Init /\ [][NextRecycle]_vars

NextSlowest == SlowLine \/ Tick

SpecSlowest == Init /\ [][NextSlowest]_vars

\* lines processed in one behaviour of SpecPlain
MaxPlainLines == 4

\* the lines of SpecPlain: lines with no marker, with identifier "4", with
\* identifier "14" and without identifier; an accepted marker and a
\* completion for "4"; and a warning without identifier
PlainLines ==
    {OtherLine(r, {}) : r \in RawIds \cup {None}}
    \cup {AcceptedLine(<<"4">>), FinishedLine(<<"4">>, 1),
          OtherLine(None, {"WARN"})}

\* the same handler on the lines of PlainLines
PlainLine ==
    /\ nlines < MaxPlainLines
    /\ \E log_name \in FocusPools, line \in PlainLines :
          parse_qgis_log_line(line, log_name)
    /\ nlines' = nlines + 1
    /\ UNCHANGED <<now, vars_aside>>

NextPlain == PlainLine \/ Tick

\* lines processed in one behaviour of SpecFields
MaxFieldLines == 4

\* the lines of SpecFields: for identifier "4" an accepted marker and one
\* line of each field
FieldLines ==
    {AcceptedLine(<<"4">>),
     MapLine(<<"4">>, <<"/", "srv", "/", "alpha", ".qgs">>),
     UserLine(<<"4">>, <<"alice">>), LayersLine(<<"4">>, <<"roads">>),
     RequestLine(<<"4">>, <<"GetMap">>)}

\* the same handler on the lines of FieldLines
FieldLine ==
    /\ nlines < MaxFieldLines
    /\ \E log_name \in FocusPools, line \in FieldLines :
          parse_qgis_log_line(line, log_name)
    /\ nlines' = nlines + 1
    /\ UNCHANGED <<now, vars_aside>>

NextFields == FieldLine \/ Tick

SpecFields == Init /\ [][NextFields]_vars

SpecPlain == Init /\ [][NextPlain]_vars

\* lines handled in one behaviour of SpecCount
MaxCountLines == 3

\* the lines of SpecCount: an accepted marker and 'Request finished' lines
\* with an elapsed time of 1 ms, of 0 ms and without one
CountLines ==
    {AcceptedLine(<<"4">>), FinishedLine(<<"4">>, 1),
     FinishedLine(<<"4">>, 0), FinishedLine(<<"4">>, NoMatch)}

\* the same handler on the lines of CountLines, for any pool
CountLine ==
    /\ nlines < MaxCountLines
    /\ \E log_name \in POOL_NAMES, line \in CountLines :
          parse_qgis_log_line(line, log_name)
    /\ nlines' = nlines + 1
    /\ UNCHANGED <<now, vars_aside>>

NextCount == CountLine \/ Tick

SpecCount == Init /\ [][NextCount]_vars

\* lines handled in one behaviour of SpecClose
MaxCloseLines == 3

\* the lines of SpecClose: the accepted marker of identifier "4", its
\* completions with 1 ms and 0 ms, a line that is an accepted marker and a
\* completion at once, and the completion of identifier "14"
CloseLines ==
    {AcceptedLine(<<"4">>), FinishedLine(<<"4">>, 1),
     FinishedLine(<<"4">>, 0), FinishedLine(<<"1", "4">>, 1),
     Line(<<"4">>, {"accepted", "finished"}, None, None, None, None, 1)}

\* the handler on the lines of CloseLines
CloseLine ==
    /\ nlines < MaxCloseLines
    /\ \E log_name \in FocusPools, line \in CloseLines :
          parse_qgis_log_line(line, log_name)
    /\ nlines' = nlines + 1
    /\ UNCHANGED <<now, vars_aside>>

NextClose == CloseLine \/ Tick

SpecClose == Init /\ [][NextClose]_vars

(* ------------------------------------------------------------------ *)
(* calculate_response_stats (src/monitor.py:537-565)                   *)
(*                                                                     *)
(* The function reads response_times[log_name] and the clock.  Its     *)
(* deque is given here as stat_samples, with up to MaxBlock + 2 *      *)
(* MaxFew samples (the source keeps up to 10000), so that counts occur *)
(* at which int(count * 0.95) is not the last index.  'avg' is held in *)
(* tenths.                                                             *)
(* ------------------------------------------------------------------ *)

\* samples in the large block of the deque
MaxBlock == 20

\* samples in each of the two small blocks of the deque
MaxFew == 2

\* the elapsed times of the samples
StatElapsed == {1, 2, 4}

\* n samples (timestamp, elapsed)
Block(ts, rt, n) == [i \in 1..n |-> <<ts, rt>>]

\* lines 542-545: the elapsed times of the samples not before the cutoff
TimesInWindow(buf, cutoff) ==
    LET kept == SelectSeq(buf, LAMBDA s : s[1] >= cutoff)
    IN  [i \in 1..Len(kept) |-> kept[i][2]]

\* x placed into an ascending sequence, after the elements equal to it
InsertAsc(sorted, x) ==
    LET n == Cardinality({i \in 1..Len(sorted) : sorted[i] <= x})
    IN  SubSeq(sorted, 1, n) \o <<x>> \o SubSeq(sorted, n + 1, Len(sorted))

\* line 556: sorted(times_in_window)
RECURSIVE Sorted(_)
Sorted(times) ==
    IF times = <<>> THEN <<>>
    ELSE InsertAsc(Sorted(SubSeq(times, 1, Len(times) - 1)),
                   times[Len(times)])

\* sum(times_sorted)
RECURSIVE SumSeq(_)
SumSeq(times) ==
    IF times = <<>> THEN 0 ELSE times[1] + SumSeq(Tail(times))

\* round(total / count, 1), in tenths: the tenth nearest to the quotient.
\* When the quotient lies exactly between two tenths, round() goes by the
\* double total / count: if the quotient is a binary fraction (an odd
\* multiple of 1/4) the double is exact and the even tenth is taken;
\* otherwise the double lies just above or just below the quotient and
\* round() follows it, so both tenths are possible results.
RoundTenths(total, count) ==
    LET q == (10 * total) \div count
        r == (10 * total) % count
    IN  IF 2 * r < count THEN {q}
        ELSE IF 2 * r > count THEN {q + 1}
        ELSE IF (2 * q + 1) % 5 = 0
             THEN {IF q % 2 = 0 THEN q ELSE q + 1}
             ELSE {q, q + 1}

\* index count - 1 in place of int(count * 0.95)
P95Index_Last(count) == count - 1

\* line 564: int(count * 0.95), 0-based; the product of the doubles is
\* floor(count * 95 / 100) for every count up to the deque's capacity
P95Index(count) == (count * 95) \div 100

\* lines 548-554: the zeroed summary
ZeroStats == [avg10 |-> 0, min |-> 0, max |-> 0, count |-> 0, p95 |-> 0]

\* calculate_response_stats at time.time() = t: the summaries it can return
calculate_response_stats(buf, seconds_ago, t) ==
    LET cutoff == t - seconds_ago
        times_in_window == TimesInWindow(buf, cutoff)
        times_sorted == Sorted(times_in_window)
        count == Len(times_sorted)
    IN  IF times_in_window = <<>> THEN {ZeroStats}
        ELSE {[avg10 |-> a,
               min |-> times_sorted[1],
               max |-> times_sorted[count],
               count |-> count,
               p95 |-> times_sorted[P95Index(count) + 1]] :
                 a \in RoundTenths(SumSeq(times_sorted), count)}

\* the state in which the summary is asked for: a deque holding a few
\* samples of time 0, then a large and a small block of samples of the
\* current time, each block of one elapsed time
InitCalc ==
    /\ now \in 0..MaxTime
    /\ \E r0 \in StatElapsed, r1 \in StatElapsed, r2 \in StatElapsed,
          n0 \in 0..MaxFew, n1 \in 0..MaxBlock, n2 \in 0..MaxFew :
          stat_samples = Block(0, r0, n0) \o Block(now, r1, n1)
                         \o Block(now, r2, n2)
    /\ stat_result = <<>>
    /\ current_requests = [p \in POOL_NAMES |-> <<>>]
    /\ response_times = [p \in POOL_NAMES |-> <<>>]
    /\ slowest_requests = [p \in POOL_NAMES |-> <<>>]
    /\ log_stats = InitLogStats
    /\ recent_issues = [p \in LogNames |-> <<>>]
    /\ db_tasks = <<>>
    /\ ev = [log_name |-> "", line |-> OtherLine(None, {}),
             completed |-> <<>>, swept |-> {}]
    /\ done_getmap = [p \in POOL_NAMES |-> <<>>]
    /\ seen_map = [p \in POOL_NAMES |-> [r \in RawIds |-> <<>>]]
    /\ nlines = 0
    /\ InitTail
    /\ InitDb
    /\ InitOrch

\* lines 828-829, 1503-1504: the summary of a window of seconds_ago
CalcStats ==
    /\ \E seconds_ago \in 0..MaxTime :
          \E out \in calculate_response_stats(stat_samples, seconds_ago, now) :
             stat_result' = <<[seconds_ago |-> seconds_ago, out |-> out]>>
    /\ UNCHANGED <<now, current_requests, response_times, slowest_requests,
                   log_stats, recent_issues, db_tasks, ev, seen_map,
                   done_getmap, nlines, stat_samples, aside_stats>>

NextCalc == CalcStats

SpecCalc == InitCalc /\ [][NextCalc]_vars

(* ------------------------------------------------------------------ *)
(* tail_log_file_fallback (src/monitor.py:673-779) on the log file of  *)
(* one pool.  The file's content is a sequence of tokens, each line    *)
(* ending with "\n"; offsets count tokens.  The writer of the log and  *)
(* logrotate's copytruncate act on the file between the steps of the   *)
(* tail loop.                                                          *)
(* ------------------------------------------------------------------ *)

\* seconds between two rotation checks: 5 in the source (line 705)
RotationCheckInterval == 1

\* lines the writer appends in one behaviour
MaxAppends == 3

\* truncations of the file in one behaviour
MaxTruncations == 1

\* the pool whose file is followed
TailPool == "qgis-pool1"

\* the lines the QGIS server writes
FinishedText == <<"[4]", "Request finished in 1 ms", "\n">>

WarningText == <<"WARNING", "\n">>

TailTexts == {FinishedText, WarningText}

\* what parse_qgis_log_line extracts from a text (lines 315-316, 323, 412-415)
Features(text) ==
    LET has(tok) == \E i \in 1..Len(text) : text[i] = tok
    IN  Line(IF has("[4]") THEN <<"4">> ELSE None,
             (IF has("Request finished in 1 ms") THEN {"finished"} ELSE {})
                \cup (IF has("WARNING") THEN {"WARN"} ELSE {}),
             None, None, None, None,
             IF has("Request finished in 1 ms") THEN 1 ELSE NoMatch)

\* f.readline() at offset pos: the text up to and with the next "\n", the
\* rest of the file when there is none, nothing at or after the end
ReadLine(data, pos) ==
    IF pos >= Len(data) THEN <<>>
    ELSE LET rest == SubSeq(data, pos + 1, Len(data))
         IN  IF \E i \in 1..Len(rest) : rest[i] = "\n"
             THEN SubSeq(rest, 1, FirstIndexOf(rest, "\n"))
             ELSE rest

\* lines 677-700: the task opens the file and goes to its end
TailOpen ==
    /\ ~tail.open
    /\ log_file.present
    /\ tail' = [open |-> TRUE, pos |-> Len(log_file.data),
                current_inode |-> log_file.inode,
                current_size |-> Len(log_file.data),
                last_rotation_check |-> now,
                line_count |-> 0]
    /\ UNCHANGED <<now, nlines, vars_ingest, aside_tail, log_file,
                   delivered, disk_ops>>

\* lines 740-742: f.seek(0, 2)
Reposition(pos, size) == size

\* the handle of the file opened anew left at offset 0
ReopenAt_Start(size) == 0

\* lines 729-730: f.seek(0, 2) on the handle of the file opened anew
ReopenAt(size) == size

\* the file behind the handle f: the file at the path while its inode is the
\* one of the handle (lines 695-696, 726-727), else the file that was moved
\* away under that inode
HandleData ==
    IF log_file.present /\ log_file.inode = tail.current_inode
    THEN log_file.data
    ELSE log_file.retired[tail.current_inode]

\* the OSError of the rotation check ends the loop as any other exception
AfterOSError_Ends(t) == [t EXCEPT !.open = FALSE]

\* lines 706, 754-758: last_rotation_check was set before os.stat raised;
\* the handler logs, sleeps and goes on with the loop
AfterOSError(t) == [t EXCEPT !.last_rotation_check = now]

\* lines 704-758: the rotation check, when it is due; os.stat raises OSError
\* when nothing is at the path (754-758), and the locals but
\* last_rotation_check (706) stay
TailCheck ==
    /\ tail.open
    /\ now - tail.last_rotation_check >= RotationCheckInterval
    /\ IF ~log_file.present
       THEN /\ tail' = AfterOSError(tail)
            /\ disk_ops' =
                  [disk_ops EXCEPT
                     !.stat_errors =
                        Append(@, [at |-> now, pos |-> tail.pos,
                                   inode |-> tail.current_inode,
                                   delivered |-> Len(delivered)])]
       ELSE LET new_inode == log_file.inode
                new_size == Len(log_file.data)
            IN  IF new_inode # tail.current_inode
                THEN /\ tail' = [tail EXCEPT !.last_rotation_check = now,
                                             !.current_inode = new_inode,
                                             !.current_size = new_size,
                                             !.line_count = 0,
                                             !.pos = ReopenAt(new_size)]
                     /\ disk_ops' =
                           [disk_ops EXCEPT
                              !.shrunk = FALSE,
                              !.reopen = [inode |-> new_inode,
                                          size |-> new_size,
                                          delivered |-> Len(delivered)]]
                ELSE /\ tail' =
                           IF new_size < tail.current_size
                           THEN [tail EXCEPT
                                   !.last_rotation_check = now,
                                   !.pos = Reposition(tail.pos, new_size),
                                   !.line_count = 0,
                                   !.current_size = new_size]
                           ELSE [tail EXCEPT !.last_rotation_check = now,
                                             !.current_size = new_size]
                     /\ disk_ops' = [disk_ops EXCEPT !.shrunk = FALSE]
    /\ UNCHANGED <<now, nlines, vars_ingest, aside_tail, log_file,
                   delivered>>

\* lines 760-767: f.readline() returns a text, which goes to parser_func
TailRead ==
    /\ tail.open
    /\ now - tail.last_rotation_check < RotationCheckInterval
    /\ ReadLine(HandleData, tail.pos) # <<>>
    /\ LET line == ReadLine(HandleData, tail.pos)
       IN  /\ tail' = [tail EXCEPT !.pos = @ + Len(line),
                                   !.line_count = @ + 1]
           /\ delivered' = Append(delivered,
                                  [text |-> line, at |-> tail.pos,
                                   inode |-> tail.current_inode])
           /\ parse_qgis_log_line(Features(line), TailPool)
    /\ nlines' = nlines + 1
    /\ UNCHANGED <<now, aside_tail, log_file, disk_ops>>

\* the server appends a line to its log
AppendLine ==
    /\ disk_ops.appends < MaxAppends
    /\ log_file.present
    /\ \E text \in TailTexts :
          log_file' = [log_file EXCEPT !.data = @ \o text]
    /\ disk_ops' = [disk_ops EXCEPT !.appends = @ + 1]
    /\ UNCHANGED <<now, nlines, vars_ingest, aside_tail, tail, delivered>>

\* copytruncate: the file is cut to length 0, its inode stays
CopyTruncate ==
    /\ disk_ops.truncations < MaxTruncations
    /\ log_file.present
    /\ log_file.data # <<>>
    /\ log_file' = [log_file EXCEPT !.data = <<>>]
    /\ disk_ops' = [disk_ops EXCEPT !.truncations = @ + 1, !.shrunk = TRUE]
    /\ UNCHANGED <<now, nlines, vars_ingest, aside_tail, tail, delivered>>

NextTail == TailOpen \/ TailCheck \/ TailRead \/ AppendLine \/ CopyTruncate \/ Tick

SpecTail == Init /\ [][NextTail]_vars

\* rotations of the file by rename and create in one behaviour
MaxRotations == 1

\* logrotate's create method, first half: the file is renamed; it keeps its
\* inode and content, and nothing is at the path
RotateAway ==
    /\ disk_ops.rotations < MaxRotations
    /\ log_file.present
    /\ log_file' = [present |-> FALSE, inode |-> 0, data |-> <<>>,
                    retired |-> Append(log_file.retired, log_file.data)]
    /\ disk_ops' = [disk_ops EXCEPT !.rotations = @ + 1]
    /\ UNCHANGED <<now, nlines, vars_ingest, aside_tail, tail, delivered>>

\* second half: an empty file with an inode not in use is made at the path
CreateNew ==
    /\ ~log_file.present
    /\ log_file' = [log_file EXCEPT !.present = TRUE,
                                    !.inode = Len(log_file.retired) + 1]
    /\ UNCHANGED <<now, nlines, vars_ingest, aside_tail, tail, delivered,
                   disk_ops>>

\* the renamed file is moved back to the path
MoveBack ==
    /\ ~log_file.present
    /\ log_file.retired # <<>>
    /\ log_file' = [present |-> TRUE, inode |-> Len(log_file.retired),
                    data |-> log_file.retired[Len(log_file.retired)],
                    retired |-> SubSeq(log_file.retired, 1,
                                       Len(log_file.retired) - 1)]
    /\ UNCHANGED <<now, nlines, vars_ingest, aside_tail, tail, delivered,
                   disk_ops>>

NextRotate ==
    \/ TailOpen
    \/ TailCheck
    \/ TailRead
    \/ AppendLine
    \/ RotateAway
    \/ CreateNew
    \/ MoveBack
    \/ Tick

SpecRotate == Init /\ [][NextRotate]_vars

\* the k-th line the server writes to the path: its number, whether a tail
\* had the file open when it was written, and the end of the line
WrittenLine(k, era) == <<ToString(k), era, "\n">>

\* the server appends its next line to its log
ServerWrites ==
    /\ disk_ops.appends < MaxAppends
    /\ log_file.present
    /\ log_file' =
          [log_file EXCEPT
             !.data = @ \o WrittenLine(disk_ops.appends + 1,
                                       IF tail.open THEN "tailed"
                                       ELSE "early")]
    /\ disk_ops' = [disk_ops EXCEPT !.appends = @ + 1]
    /\ UNCHANGED <<now, nlines, vars_ingest, aside_tail, tail, delivered>>

\* the tail loop with a writer of numbered lines, copytruncate and
\* rotation by rename and create
NextStream ==
    \/ TailOpen
    \/ TailCheck
    \/ TailRead
    \/ ServerWrites
    \/ CopyTruncate
    \/ RotateAway
    \/ CreateNew
    \/ Tick

SpecStream == Init /\ [][NextStream]_vars

(* ------------------------------------------------------------------ *)
(* The database functions (src/monitor.py:192-244).  A timestamp is    *)
(* stored as the text sqlite3 makes of datetime.now(), the host's      *)
(* local time 'YYYY-MM-DD HH:MM:SS.ffffff'; SQLite's datetime('now')   *)
(* is the text 'YYYY-MM-DD HH:MM:SS' of the UTC time.  A text is held  *)
(* as its second and its fraction; one second has TicksPerSecond ticks *)
(* of the clock.                                                       *)
(* ------------------------------------------------------------------ *)

\* clock ticks in one second
TicksPerSecond == 2

\* seconds in one day
SecondsPerDay == 2

\* the clock of SpecDb stops at MaxDbTime
MaxDbTime == 5

\* lines handled in one behaviour of SpecDb
MaxDbLines == 3

\* rows of system_metrics written in one behaviour of SpecDb
MaxMetricRows == 1

\* the greatest retention setting, in days
MaxRetentionDays == 1

\* calls of cleanup_old_data in one behaviour of SpecDb
MaxSweeps == 1

\* hosts west of, on and east of UTC: local time minus UTC, in seconds
UtcOffsets == {0 - 1, 0, 1}

\* datetime.now() at clock t as sqlite3 stores it: local time, with the
\* fraction of the second left out when it is 0 (datetime.isoformat)
LocalStamp(t, utc_offset) ==
    [sec |-> (t \div TicksPerSecond) + utc_offset,
     frac |-> IF t % TicksPerSecond = 0 THEN <<>>
              ELSE <<t % TicksPerSecond>>]

\* datetime('now', '-N days') at clock t: UTC, whole seconds
SqlNowMinusDays(t, days) ==
    [sec |-> (t \div TicksPerSecond) - days * SecondsPerDay, frac |-> <<>>]

\* a < b for two timestamp texts: SQLite compares TEXT byte by byte
TextLess(a, b) ==
    \/ a.sec < b.sec
    \/ /\ a.sec = b.sec
       /\ \/ a.frac = <<>> /\ b.frac # <<>>
          \/ a.frac # <<>> /\ b.frac # <<>> /\ a.frac[1] < b.frac[1]

\* lines 232, 235: DELETE FROM table WHERE timestamp < cutoff
DeleteOlder(rows, cutoff) ==
    SelectSeq(rows, LAMBDA row : ~TextLess(row.timestamp, cutoff))

\* line 237: cursor.rowcount is the number of rows the statement executed
\* last has changed
RowCount(before, after) == Len(before) - Len(after)

\* lines 225-242: cleanup_old_data; deleted_requests is read from the
\* cursor after the second DELETE (237) and printed when positive (241);
\* removed is the history of the rows the call took out of both tables
cleanup_old_data ==
    /\ db.sweeps < MaxSweeps
    /\ LET requests_kept ==
               DeleteOlder(db.requests,
                           SqlNowMinusDays(now, db_env.request_retention_days))
           metrics_kept ==
               DeleteOlder(db.system_metrics,
                           SqlNowMinusDays(now,
                               db_env.system_metrics_retention_days))
       IN  db' = [db EXCEPT
                    !.sweeps = @ + 1,
                    !.requests = requests_kept,
                    !.system_metrics = metrics_kept,
                    !.removed = RowCount(db.requests, requests_kept)
                                  + RowCount(db.system_metrics, metrics_kept),
                    !.reported = RowCount(db.system_metrics, metrics_kept)]
    /\ UNCHANGED <<now, nlines, vars_ingest, aside_db, db_done, db_env>>

\* the INSERT with a failure that leaves the row in the table
InsertRequest_Always(rows, row, ok) == Append(rows, row)

\* lines 197-204: INSERT INTO requests and commit; nothing is stored when
\* the statement or the commit raises
InsertRequest(rows, row, ok) == IF ok THEN Append(rows, row) ELSE rows

\* lines 192-208: the next background task runs save_request_to_db.  The
\* INSERT fails when project is None (the column is NOT NULL, line 151) and
\* can fail for reasons of the database (locked, disk); the exception is
\* caught at line 205.
save_request_to_db ==
    /\ db_done < Len(db_tasks)
    /\ LET args == db_tasks[db_done + 1]
           row == [timestamp |-> LocalStamp(now, db_env.utc_offset),
                   at |-> now, args |-> args]
       IN  \E ok \in IF args.project = None THEN {FALSE} ELSE BOOLEAN :
              db' = [db EXCEPT
                       !.requests = InsertRequest(@, row, ok),
                       !.last = IF ok THEN "saved" ELSE "failed",
                       !.after_line = nlines]
    /\ db_done' = db_done + 1
    /\ UNCHANGED <<now, nlines, vars_ingest, aside_db, db_env>>

\* lines 210-223: save_system_metrics_to_db
save_system_metrics_to_db ==
    /\ Len(db.system_metrics) < MaxMetricRows
    /\ db' = [db EXCEPT
                !.system_metrics =
                   Append(@, [timestamp |->
                                LocalStamp(now, db_env.utc_offset),
                              at |-> now])]
    /\ UNCHANGED <<now, nlines, vars_ingest, aside_db, db_done, db_env>>

\* the lines of SpecDb: a GETMAP request of a project and its completion
DbLines ==
    {MapLine(<<"4">>, <<"beta", ".qgs">>), RequestLine(<<"4">>, <<"GetMap">>),
     FinishedLine(<<"4">>, 1)}

\* the same handler on the lines of DbLines
DbLine ==
    /\ nlines < MaxDbLines
    /\ \E line \in DbLines : parse_qgis_log_line(line, TailPool)
    /\ nlines' = nlines + 1
    /\ UNCHANGED <<now, vars_aside>>

\* the clock of SpecDb advances by one tick
DbTick ==
    /\ now < MaxDbTime
    /\ now' = now + 1
    /\ UNCHANGED <<nlines, vars_ingest, vars_aside>>

\* the state of SpecDb at start: the host's time zone and the retention
\* settings (lines 48, 51) are those of the installation
InitDbAny ==
    /\ now = 0
    /\ current_requests = [p \in POOL_NAMES |-> <<>>]
    /\ response_times = [p \in POOL_NAMES |-> <<>>]
    /\ slowest_requests = [p \in POOL_NAMES |-> <<>>]
    /\ log_stats = InitLogStats
    /\ recent_issues = [p \in LogNames |-> <<>>]
    /\ db_tasks = <<>>
    /\ ev = [log_name |-> "", line |-> OtherLine(None, {}),
             completed |-> <<>>, swept |-> {}]
    /\ done_getmap = [p \in POOL_NAMES |-> <<>>]
    /\ seen_map = [p \in POOL_NAMES |-> [r \in RawIds |-> <<>>]]
    /\ nlines = 0
    /\ InitStats
    /\ InitTail
    /\ InitOrch
    /\ db = [requests |-> <<>>, system_metrics |-> <<>>, last |-> "none",
             after_line |-> 0, sweeps |-> 0, removed |-> 0, reported |-> 0]
    /\ db_done = 0
    /\ \E off \in UtcOffsets, rd \in 0..MaxRetentionDays,
          md \in 0..MaxRetentionDays :
          db_env = [utc_offset |-> off, request_retention_days |-> rd,
                    system_metrics_retention_days |-> md]

NextDb ==
    \/ DbLine
    \/ save_request_to_db
    \/ save_system_metrics_to_db
    \/ cleanup_old_data
    \/ DbTick

SpecDb == InitDbAny /\ [][NextDb]_vars

\* lines handled in one behaviour of SpecWrite
MaxWriteLines == 5

\* the same handler on the lines of DbLines, as many as SpecWrite takes
WriteLine ==
    /\ nlines < MaxWriteLines
    /\ \E line \in DbLines : parse_qgis_log_line(line, TailPool)
    /\ nlines' = nlines + 1
    /\ UNCHANGED <<now, vars_aside>>

\* the line handler and the background writes it starts
NextWrite == WriteLine \/ save_request_to_db \/ Tick

SpecWrite == Init /\ [][NextWrite]_vars

(* ------------------------------------------------------------------ *)
(* The background tasks (src/monitor.py:781-939) and the connect       *)
(* handler that starts them (1469-1541).  A task is "none" until it is *)
(* started, "started" until it first runs, then "running" (a tail) or  *)
(* alternately "sleeping" in socketio.sleep and "awake" in an          *)
(* iteration of its loop (a thread), and "ended" once its function     *)
(* has returned or was left by an exception.                           *)
(* ------------------------------------------------------------------ *)

\* clients that connect in one behaviour
MaxObservers == 2

\* lines handled in one behaviour of SpecOrch
MaxOrchLines == 2

\* exceptions raised in one behaviour
MaxErrors == 1

\* the test of line 794 with the file's existence left out
ShouldTail_Always(pool, existing) == TRUE

\* line 794: a tail is started for a pool whose log file exists
ShouldTail(pool, existing) == pool \in existing

\* where a thread is once start_background_task has started it:
\* monitoring_thread begins an iteration (895), log_monitoring_thread its
\* start-up (785), cleanup_thread its sleep (932)
FirstState(t) ==
    IF t = "monitoring_thread" THEN "awake"
    ELSE IF t = "log_monitoring_thread" THEN "started"
    ELSE "sleeping"

\* where a task is after an exception in an iteration: monitoring_thread
\* (922-924) and cleanup_thread (937-939) catch it inside the loop and sleep;
\* tail_log_file_fallback catches it outside its loop (771-779) and
\* returns; the loop of log_monitoring_thread (821-862) catches nothing
AfterException(t) ==
    IF t \in {"monitoring_thread", "cleanup_thread"} THEN "sleeping"
    ELSE "ended"

\* the lines of SpecOrch: a warning without identifier
OrchLines == {OtherLine(None, {"WARN"})}

\* the exceptions raised so far in the tasks of S
RECURSIVE ErrorCount(_)
ErrorCount(S) ==
    IF S = {} THEN 0
    ELSE LET t == CHOOSE x \in S : TRUE
         IN  tasks[t].errors + ErrorCount(S \ {t})

\* the emit takes the elements out of the buffers it sends
Snapshot_Drained(buffers) == [p \in DOMAIN buffers |-> <<>>]

\* lines 847-859, 1524-1541: the comprehensions and list(issues) build new
\* lists from the per-pool lists and deques, which stay as they are
Snapshot(buffers) == buffers

\* lines 826-836, 1501-1511: what stats_update says of each pool: the
\* counter, and the number of samples of the 10 minute window (every
\* sample of a behaviour lies within it)
StatsUpdate ==
    [p \in POOL_NAMES |->
       [total_requests |-> log_stats[p].requests_total,
        count |-> Len(response_times[p])]]

\* every connect starts the thread
ToStart_Always(t, flags) == TRUE

\* lines 1477, 1482, 1487: 'if not monitoring_active' and its two siblings
ToStart(t, flags) == ~flags[t]

\* lines 1469-1541: a client connects; the threads not yet started are
\* started and the four events are emitted to the client. The server runs
\* on eventlet (138): nothing yields between the test of a flag and its
\* assignment, so the handler's test and start are one step
handle_connect ==
    /\ observers < MaxObservers
    /\ observers' = observers + 1
    /\ clients' = clients + 1
    /\ active' = [t \in Threads |-> TRUE]
    /\ tasks' = [t \in TaskNames |->
                   IF t \in Threads /\ ToStart(t, active)
                   THEN [tasks[t] EXCEPT !.state = FirstState(t),
                                         !.starts = @ + 1]
                   ELSE tasks[t]]
    /\ emitted' = [by |-> "handle_connect", kinds |-> EventKinds,
                   issues |-> recent_issues, stats |-> StatsUpdate]
    /\ slowest_requests' = Snapshot(slowest_requests)
    /\ recent_issues' = Snapshot(recent_issues)
    /\ UNCHANGED <<now, nlines, current_requests, response_times, log_stats,
                   db_tasks, ev, seen_map, done_getmap, vars_stats,
                   vars_tail, vars_db, paths, stream>>

\* lines 785-818: log_monitoring_thread starts a tail for every pool whose
\* log file exists and enters its loop
StartTails ==
    /\ tasks["log_monitoring_thread"].state = "started"
    /\ tasks' = [t \in TaskNames |->
                   IF t = "log_monitoring_thread"
                   THEN [tasks[t] EXCEPT !.state = "sleeping"]
                   ELSE IF t \in POOL_NAMES /\ ShouldTail(t, paths)
                   THEN [tasks[t] EXCEPT !.state = "started",
                                         !.starts = @ + 1]
                   ELSE tasks[t]]
    /\ UNCHANGED <<now, nlines, vars_ingest, vars_stats, vars_tail, vars_db,
                   active, paths, observers, clients, emitted, stream>>

\* lines 673-700: a started tail runs; it returns when the file is gone
TailBeginOf(p) ==
    /\ tasks[p].state = "started"
    /\ tasks' = [tasks EXCEPT ![p].state =
                    IF p \in paths THEN "running" ELSE "ended"]
    /\ UNCHANGED <<now, nlines, vars_ingest, vars_stats, vars_tail,
                   vars_db, active, paths, observers, clients, emitted, stream>>

\* the tail of some pool begins
TailBegin == \E p \in POOL_NAMES : TailBeginOf(p)

\* line 767: a running tail hands a line to the handler
OrchLine ==
    /\ nlines < MaxOrchLines
    /\ \E p \in POOL_NAMES, line \in OrchLines :
          /\ tasks[p].state = "running"
          /\ parse_qgis_log_line(line, p)
    /\ nlines' = nlines + 1
    /\ UNCHANGED <<now, vars_aside>>

\* the loop conditions: 'while log_monitoring_active' (821), 'while
\* monitoring_active' (894), and 'while True' of cleanup_thread (930)
LoopGoesOn(t, flags) ==
    IF t = "cleanup_thread" THEN TRUE ELSE flags[t]

\* lines 822, 920, 932: a thread's socketio.sleep returns, and the thread
\* begins another iteration when its loop condition holds
WakeOf(t) ==
    /\ tasks[t].state = "sleeping"
    /\ tasks' = [tasks EXCEPT ![t].state =
                    IF LoopGoesOn(t, active) THEN "awake" ELSE "ended"]
    /\ UNCHANGED <<now, nlines, vars_ingest, vars_stats, vars_tail,
                   vars_db, active, paths, observers, clients, emitted, stream>>

\* the sleep of some thread returns
Wake == \E t \in Threads : WakeOf(t)

\* lines 895-920: monitoring_thread emits metrics_update to all clients
\* (the background task it starts at 901 is save_system_metrics_to_db)
PushMetrics ==
    /\ tasks["monitoring_thread"].state = "awake"
    /\ tasks' = [tasks EXCEPT !["monitoring_thread"].state = "sleeping"]
    /\ emitted' = [emitted EXCEPT !.by = "monitoring_thread",
                                  !.kinds = {"metrics_update"}]
    /\ UNCHANGED <<now, nlines, vars_ingest, vars_stats, vars_tail, vars_db,
                   active, paths, observers, clients, stream>>

\* lines 824-862: log_monitoring_thread emits stats_update and
\* slowest_requests to all clients
PushStats ==
    /\ tasks["log_monitoring_thread"].state = "awake"
    /\ tasks' = [tasks EXCEPT !["log_monitoring_thread"].state = "sleeping"]
    /\ emitted' = [emitted EXCEPT !.by = "log_monitoring_thread",
                                  !.kinds = {"stats_update",
                                             "slowest_requests"},
                                  !.stats = StatsUpdate]
    /\ slowest_requests' = Snapshot(slowest_requests)
    /\ UNCHANGED <<now, nlines, current_requests, response_times, log_stats,
                   recent_issues, db_tasks, ev, seen_map, done_getmap,
                   vars_stats, vars_tail, vars_db, active, paths, observers,
                   clients, stream>>

\* lines 932-935: cleanup_thread calls cleanup_old_data
CleanupRun ==
    /\ tasks["cleanup_thread"].state = "awake"
    /\ tasks' = [tasks EXCEPT !["cleanup_thread"].state = "sleeping"]
    /\ db' = [db EXCEPT
                !.requests =
                   DeleteOlder(@, SqlNowMinusDays(now,
                                     db_env.request_retention_days)),
                !.system_metrics =
                   DeleteOlder(@, SqlNowMinusDays(now,
                                     db_env.system_metrics_retention_days))]
    /\ UNCHANGED <<now, nlines, vars_ingest, vars_stats, vars_tail, db_done,
                   db_env, active, paths, observers, clients, emitted, stream>>

\* an exception is raised in an iteration of a task's loop
TaskRaises ==
    \E t \in TaskNames :
        /\ tasks[t].state = (IF t \in Threads THEN "awake" ELSE "running")
        /\ ErrorCount(TaskNames) < MaxErrors
        /\ tasks' = [tasks EXCEPT ![t].state = AfterException(t),
                                  ![t].errors = @ + 1]
        /\ UNCHANGED <<now, nlines, vars_ingest, vars_stats, vars_tail,
                       vars_db, active, paths, observers, clients, emitted, stream>>

\* a pool's log file is created
PathAppears ==
    \E p \in POOL_NAMES \ paths :
        /\ paths' = paths \cup {p}
        /\ UNCHANGED <<now, nlines, vars_ingest, vars_stats, vars_tail,
                       vars_db, active, tasks, observers, clients, emitted, stream>>

\* a pool's log file is removed
PathVanishes ==
    \E p \in paths :
        /\ paths' = paths \ {p}
        /\ UNCHANGED <<now, nlines, vars_ingest, vars_stats, vars_tail,
                       vars_db, active, tasks, observers, clients, emitted, stream>>

\* the state of SpecOrch at start: any of the pools' log files may be
\* missing
InitOrchAny ==
    /\ now = 0
    /\ current_requests = [p \in POOL_NAMES |-> <<>>]
    /\ response_times = [p \in POOL_NAMES |-> <<>>]
    /\ slowest_requests = [p \in POOL_NAMES |-> <<>>]
    /\ log_stats = InitLogStats
    /\ recent_issues = [p \in LogNames |-> <<>>]
    /\ db_tasks = <<>>
    /\ ev = [log_name |-> "", line |-> OtherLine(None, {}),
             completed |-> <<>>, swept |-> {}]
    /\ done_getmap = [p \in POOL_NAMES |-> <<>>]
    /\ seen_map = [p \in POOL_NAMES |-> [r \in RawIds |-> <<>>]]
    /\ nlines = 0
    /\ InitStats
    /\ InitTail
    /\ InitDb
    /\ active = [t \in Threads |-> FALSE]
    /\ tasks = [t \in TaskNames |->
                  [state |-> "none", errors |-> 0, starts |-> 0]]
    /\ paths \in SUBSET POOL_NAMES
    /\ observers = 0
    /\ clients = 0
    /\ emitted = [by |-> "none", kinds |-> {},
                  issues |-> [p \in LogNames |-> <<>>],
                  stats |-> [p \in POOL_NAMES |->
                               [total_requests |-> 0, count |-> 0]]]
    /\ stream = [source |-> "none", switches |-> 0]

\* lines 1543-1546: a client disconnects; the handler prints
handle_disconnect ==
    /\ clients > 0
    /\ clients' = clients - 1
    /\ UNCHANGED <<now, nlines, vars_ingest, vars_stats, vars_tail, vars_db,
                   active, tasks, paths, observers, emitted, stream>>

NextOrch ==
    \/ handle_connect
    \/ StartTails
    \/ TailBegin
    \/ OrchLine
    \/ Wake
    \/ PushMetrics
    \/ PushStats
    \/ CleanupRun
    \/ TaskRaises
    \/ PathAppears
    \/ PathVanishes

SpecOrch == InitOrchAny /\ [][NextOrch]_vars

\* clients come and go while the tasks run; no line is written
NextConnect ==
    \/ handle_connect
    \/ handle_disconnect
    \/ StartTails
    \/ TailBegin
    \/ Wake
    \/ PushMetrics
    \/ PushStats
    \/ CleanupRun
    \/ TaskRaises
    \/ PathAppears
    \/ PathVanishes

SpecConnect == InitOrchAny /\ [][NextConnect]_vars

\* the tasks with every log file in place and no exception
NextPush ==
    \/ handle_connect
    \/ StartTails
    \/ TailBegin
    \/ OrchLine
    \/ Wake
    \/ PushMetrics
    \/ PushStats
    \/ CleanupRun

\* the scheduler runs every task that can run, and every sleep returns
SpecPush ==
    /\ Init
    /\ [][NextPush]_vars
    /\ WF_vars(StartTails)
    /\ \A p \in POOL_NAMES : WF_vars(TailBeginOf(p))
    /\ \A t \in Threads : WF_vars(WakeOf(t))
    /\ WF_vars(PushMetrics)
    /\ WF_vars(PushStats)
    /\ WF_vars(CleanupRun)

\* the run flags are cleared; no statement of the source does it
Shutdown ==
    /\ \E t \in Threads : active[t]
    /\ active' = [t \in Threads |-> FALSE]
    /\ UNCHANGED <<now, nlines, vars_ingest, vars_stats, vars_tail, vars_db,
                   tasks, paths, observers, clients, emitted, stream>>

\* line 702: a running tail tests 'while log_monitoring_active' and leaves
\* its loop when the flag is cleared
TailLoopOf(p) ==
    /\ tasks[p].state = "running"
    /\ ~active["log_monitoring_thread"]
    /\ tasks' = [tasks EXCEPT ![p].state = "ended"]
    /\ UNCHANGED <<now, nlines, vars_ingest, vars_stats, vars_tail, vars_db,
                   active, paths, observers, clients, emitted, stream>>

\* the tail of some pool tests its flag
TailLoop == \E p \in POOL_NAMES : TailLoopOf(p)

\* the tasks with every log file in place, no exception and no line, and
\* the flags cleared at any moment
NextStop ==
    \/ handle_connect
    \/ Shutdown
    \/ StartTails
    \/ TailBegin
    \/ TailLoop
    \/ Wake
    \/ PushMetrics
    \/ PushStats
    \/ CleanupRun

\* the scheduler runs every task that can run, and every sleep returns
SpecStop ==
    /\ Init
    /\ [][NextStop]_vars
    /\ WF_vars(StartTails)
    /\ \A p \in POOL_NAMES : WF_vars(TailBeginOf(p))
    /\ \A p \in POOL_NAMES : WF_vars(TailLoopOf(p))
    /\ \A t \in Threads : WF_vars(WakeOf(t))
    /\ WF_vars(PushMetrics)
    /\ WF_vars(PushStats)
    /\ WF_vars(CleanupRun)

\* lines handled in one behaviour of SpecAtomic
MaxAtomicLines == 3

\* the completion line of SpecAtomic
AtomicCompletion == FinishedLine(<<"4">>, 1)

\* the other lines of SpecAtomic
AtomicLines == {AcceptedLine(<<"4">>), RequestLine(<<"4">>, <<"GetMap">>)}

\* any task may run at any moment
MaySwitch_Always(states) == TRUE

\* line 138, async_mode='eventlet': a green thread runs until it yields in
\* socketio.sleep or an emit; parse_qgis_log_line (310-477) has no such
\* call, so no other task runs while a tail is inside it
MaySwitch(states) == \A p \in POOL_NAMES : states[p].state # "in_line"

\* line 420: a running tail is in the handler of a completion line and has
\* appended the sample
LineSample ==
    /\ MaySwitch(tasks)
    /\ nlines < MaxAtomicLines
    /\ \E p \in POOL_NAMES :
          /\ tasks[p].state = "running"
          /\ AppendSample(AtomicCompletion, p)
          /\ tasks' = [tasks EXCEPT ![p].state = "in_line"]
    /\ UNCHANGED <<now, nlines, current_requests, slowest_requests,
                   log_stats, recent_issues, db_tasks, ev, seen_map,
                   done_getmap, vars_stats, vars_tail, vars_db, active,
                   paths, observers, clients, emitted, stream>>

\* lines 421-466: the handler counts and closes the request and returns
LineRest ==
    /\ \E p \in POOL_NAMES :
          /\ tasks[p].state = "in_line"
          /\ AfterSample(AtomicCompletion, p)
          /\ tasks' = [tasks EXCEPT ![p].state = "running"]
    /\ nlines' = nlines + 1
    /\ UNCHANGED <<now, response_times, vars_stats, vars_tail, vars_db,
                   active, paths, observers, clients, emitted, stream>>

\* the handler runs on a line that is no completion
LineWhole ==
    /\ MaySwitch(tasks)
    /\ nlines < MaxAtomicLines
    /\ \E p \in POOL_NAMES, line \in AtomicLines :
          /\ tasks[p].state = "running"
          /\ parse_qgis_log_line(line, p)
    /\ nlines' = nlines + 1
    /\ UNCHANGED <<now, vars_aside>>

\* the tasks and the connect handler, each run when the scheduler may
\* switch to it
NextAtomic ==
    \/ LineSample
    \/ LineRest
    \/ LineWhole
    \/ MaySwitch(tasks) /\ handle_connect
    \/ MaySwitch(tasks) /\ StartTails
    \/ MaySwitch(tasks) /\ TailBegin
    \/ MaySwitch(tasks) /\ Wake
    \/ MaySwitch(tasks) /\ PushMetrics
    \/ MaySwitch(tasks) /\ PushStats

SpecAtomic == Init /\ [][NextAtomic]_vars

\* lines 519-535: parse_php_log_line(line, log_name)
parse_php_log_line(line, log_name) ==
    /\ IF "WARN" \in line.marks
       THEN /\ log_stats' = [log_stats EXCEPT ![log_name].warnings = @ + 1]
            /\ recent_issues' = [recent_issues EXCEPT ![log_name] =
                   DequeAppend(@, Issue(now, "WARNING", line),
                               RECENT_ISSUES_MAXLEN)]
       ELSE IF IsPhpErrorLine(line)
       THEN /\ log_stats' = [log_stats EXCEPT ![log_name].errors = @ + 1]
            /\ recent_issues' = [recent_issues EXCEPT ![log_name] =
                   DequeAppend(@, Issue(now, "ERROR", line),
                               RECENT_ISSUES_MAXLEN)]
       ELSE UNCHANGED <<log_stats, recent_issues>>
    /\ ev' = [log_name |-> log_name, line |-> line, completed |-> <<>>,
              swept |-> {}]
    /\ UNCHANGED <<current_requests, response_times, slowest_requests,
                   db_tasks, seen_map, done_getmap>>

\* lines handled in one behaviour of SpecSeverity
MaxSeverityLines == 3

\* the severity keywords a line of SpecSeverity contains: none, one, or a
\* warning keyword together with an error keyword
SeverityMarks ==
    {{}, {"WARN"}, {"ERROR"}, {"CRITICAL"}, {"Fatal"}, {"WARN", "ERROR"},
     {"WARN", "Fatal"}}

\* the lines of SpecSeverity, without identifier
SeverityLines == {OtherLine(None, marks) : marks \in SeverityMarks}

\* a QGIS pool's tail hands a line to parse_qgis_log_line
QgisSeverityLine ==
    /\ nlines < MaxSeverityLines
    /\ \E line \in SeverityLines : parse_qgis_log_line(line, TailPool)
    /\ nlines' = nlines + 1
    /\ UNCHANGED <<now, vars_aside>>

\* lines 810-813: the PHP-FPM tail hands a line to parse_php_log_line
PhpLine ==
    /\ nlines < MaxSeverityLines
    /\ \E line \in SeverityLines : parse_php_log_line(line, "php-fpm")
    /\ nlines' = nlines + 1
    /\ UNCHANGED <<now, vars_aside>>

NextSeverity == QgisSeverityLine \/ PhpLine \/ Tick

SpecSeverity == Init /\ [][NextSeverity]_vars

\* lines handled in one behaviour of SpecIssues
MaxIssueLines == 3

\* the severity keywords of the lines of SpecIssues
IssueMarks == {{}, {"WARN"}, {"ERROR"}, {"WARN", "ERROR"}}

\* the lengths of the lines of SpecIssues: an ordinary line, a line of
\* exactly MESSAGE_CHARS characters and a longer one
IssueChars == {SHORT_CHARS, MESSAGE_CHARS, MESSAGE_CHARS + 1}

\* the lines of SpecIssues, without identifier
IssueLines ==
    {OfChars(OtherLine(None, marks), n) : marks \in IssueMarks,
                                           n \in IssueChars}

\* a QGIS pool's tail hands a line to parse_qgis_log_line
QgisIssueLine ==
    /\ nlines < MaxIssueLines
    /\ \E line \in IssueLines : parse_qgis_log_line(line, TailPool)
    /\ nlines' = nlines + 1
    /\ UNCHANGED <<now, vars_aside>>

\* lines 810-813: the PHP-FPM tail hands a line to parse_php_log_line
PhpIssueLine ==
    /\ nlines < MaxIssueLines
    /\ \E line \in IssueLines : parse_php_log_line(line, "php-fpm")
    /\ nlines' = nlines + 1
    /\ UNCHANGED <<now, vars_aside>>

NextIssues == QgisIssueLine \/ PhpIssueLine \/ Tick

SpecIssues == Init /\ [][NextIssues]_vars

\* lines handled in one behaviour of SpecPools
MaxPoolLines == 4

\* the lines of SpecPools: the accepted marker and the completion of the
\* request of identifier "4"
PoolLines == {AcceptedLine(<<"4">>), FinishedLine(<<"4">>, 1)}

\* line 767: the tail of any pool hands a line to the handler; delivered
\* keeps which line went to which pool and when
PoolLine ==
    /\ nlines < MaxPoolLines
    /\ \E log_name \in POOL_NAMES, line \in PoolLines :
          /\ parse_qgis_log_line(line, log_name)
          /\ delivered' = Append(delivered, [log_name |-> log_name,
                                             line |-> line, time |-> now])
    /\ nlines' = nlines + 1
    /\ UNCHANGED <<now, vars_stats, vars_db, vars_orch, log_file, tail,
                   disk_ops>>

\* lines 810-813: the PHP-FPM tail hands an error line to its handler
PoolPhpLine ==
    /\ nlines < MaxPoolLines
    /\ parse_php_log_line(OtherLine(None, {"ERROR"}), "php-fpm")
    /\ nlines' = nlines + 1
    /\ UNCHANGED <<now, vars_aside>>

NextPools == PoolLine \/ PoolPhpLine \/ Tick

SpecPools == Init /\ [][NextPools]_vars

(* ------------------------------------------------------------------ *)
(* tail_journalctl (src/monitor.py:629-671) for one pool.  The stream  *)
(* reads from "journal" while the journalctl process runs, from "file" *)
(* once tail_log_file_fallback was called, and is "ended" when the     *)
(* function has returned.                                              *)
(* ------------------------------------------------------------------ *)

\* lines read from the journal in one behaviour of SpecJournal
MaxJournalLines == 2

\* lines 635-649, 665-669: Popen starts journalctl, or raises
\* FileNotFoundError and tail_log_file_fallback is called
JournalStart ==
    /\ stream.source = "none"
    /\ \E found \in BOOLEAN :
          stream' = IF found
                    THEN [stream EXCEPT !.source = "journal"]
                    ELSE [source |-> "file", switches |-> stream.switches + 1]
    /\ UNCHANGED <<now, nlines, vars_ingest, vars_stats, vars_tail, vars_db,
                   active, tasks, paths, observers, clients, emitted>>

\* lines 652-656: a line of the journal goes to parser_func
JournalLine ==
    /\ stream.source = "journal"
    /\ nlines < MaxJournalLines
    /\ \E text \in TailTexts :
          /\ delivered' = Append(delivered, [text |-> text, at |-> NoMatch,
                                                    inode |-> 0])
          /\ parse_qgis_log_line(Features(text), TailPool)
    /\ nlines' = nlines + 1
    /\ UNCHANGED <<now, vars_stats, vars_db, vars_orch, log_file, tail,
                   disk_ops>>

\* lines 652, 660-663: the journalctl process has exited (process.poll()
\* is not None); the loop ends and the function returns
JournalExit ==
    /\ stream.source = "journal"
    /\ stream' = [stream EXCEPT !.source = "ended"]
    /\ UNCHANGED <<now, nlines, vars_ingest, vars_stats, vars_tail, vars_db,
                   active, tasks, paths, observers, clients, emitted>>

\* line 669: tail_log_file_fallback opens the file
FallbackOpen == stream.source = "file" /\ TailOpen

\* its rotation check
FallbackCheck == stream.source = "file" /\ TailCheck

\* its reads
FallbackRead == stream.source = "file" /\ TailRead

NextJournal ==
    \/ JournalStart
    \/ JournalLine
    \/ JournalExit
    \/ FallbackOpen
    \/ FallbackCheck
    \/ FallbackRead
    \/ AppendLine
    \/ Tick

SpecJournal == Init /\ [][NextJournal]_vars

(* ------------------------------------------------------------------ *)
(* Properties                                                          *)
(* ------------------------------------------------------------------ *)

\* the step is one call of the handler
LineStep == nlines' = nlines + 1

\* a "Request finished" line with an identifier and an elapsed time > 0
FinishedPositive(line) ==
    /\ line.request_id # None
    /\ "finished" \in line.marks
    /\ line.ms > 0

\* the entry the last call closed
Closed == ev.completed[1]

\* the elapsed times of a slowest-list, in its order
ElapsedOf(slow) == [i \in 1..Len(slow) |-> slow[i][1]]

\* buf is old with one sample appended at capacity cap
AppendedTo(buf, old, sample, cap) ==
    /\ Len(buf) <= cap
    /\ IF Len(old) < cap THEN buf = Append(old, sample)
       ELSE buf = Append(Tail(old), sample)

\* C1: a "Request finished" line with elapsed > 0 that closes an entry whose
\* request type is absent or is not GETMAP adds exactly 1 to requests_total
\* and appends one sample, submits no durable write and leaves the pool's
\* slowest-list unchanged.
C1_NonGetmapCountedNotStored ==
    [][(/\ LineStep
        /\ ev'.completed # <<>>
        /\ ev'.completed[1].details.request_type # <<"GETMAP">>)
       => LET p == ev'.log_name
          IN  /\ log_stats'[p].requests_total = log_stats[p].requests_total + 1
              /\ AppendedTo(response_times'[p], response_times[p],
                            <<now, ev'.line.ms>>, RESPONSE_TIMES_MAXLEN)
              /\ db_tasks' = db_tasks
              /\ slowest_requests'[p] = slowest_requests[p]]_vars

\* C1 witness: a GETCAPABILITIES request was closed and counted
C1_Witness ==
    /\ ev.completed # <<>>
    /\ Closed.details.request_type = <<"GETCAPABILITIES">>
    /\ log_stats[ev.log_name].requests_total = 1
    /\ db_tasks = <<>>

\* the entry is older than the tracking timeout at time t
Stale(details, t) == details.start_time < t - REQUEST_TRACKING_TIMEOUT

\* the entry a line creates for identifier r at time t, before any field
FreshEntry(r, t) ==
    [map |-> None, user |-> None, layers |-> None, request_type |-> None,
     start_time |-> t, raw_request_id |-> r]

\* C2: when an accepted marker opens a second request for a raw identifier
\* that has an open entry, the new request gets a tracking key of its own
\* and the open entries stay as they are; and every completion carries the
\* fields of exactly the entry it closes and leaves the other entries alone.
C2_RecycledIdsKeptApart ==
    [][LineStep =>
       LET p == ev'.log_name
           line == ev'.line
           r == line.request_id
           cur == current_requests[p]
           nxt == current_requests'[p]
       IN  /\ (r # None /\ "accepted" \in line.marks) =>
                /\ \E k \in DOMAIN nxt \ DOMAIN cur : nxt[k].raw_request_id = r
                /\ \A k \in DOMAIN cur :
                      ~Stale(cur[k], now) => k \in DOMAIN nxt /\ nxt[k] = cur[k]
           /\ ev'.completed # <<>> =>
                LET c == ev'.completed[1]
                IN  /\ c.details = IF c.key \in DOMAIN cur THEN cur[c.key]
                                   ELSE FreshEntry(r, now)
                    /\ \A k \in DOMAIN cur \ {c.key} :
                          k \in DOMAIN nxt /\ nxt[k] = cur[k]]_vars

\* C3 as stated: a completion for an identifier whose last MAP: line came
\* after its last accepted marker carries that line's project name, whatever
\* was processed in between and however long it took.
C3_MapCarriedAnyDistance ==
    [][(LineStep /\ ev'.completed # <<>>) =>
       LET seen == seen_map[ev'.log_name][ev'.line.request_id]
       IN  seen # <<>> => ev'.completed[1].details.map = seen[1].project]_vars

\* C3, amended: the completion carries the project name of the identifier's
\* last MAP: line provided the entry that line was stored in is still open
\* when the "Request finished" line arrives (no sweep dropped it).
C3_MapCarriedWhileOpen ==
    [][(LineStep /\ ev'.completed # <<>>) =>
       LET p == ev'.log_name
           seen == seen_map[p][ev'.line.request_id]
       IN  (seen # <<>> /\ seen[1].key \in DOMAIN current_requests[p])
           => ev'.completed[1].details.map = seen[1].project]_vars

\* C3 witness: a request discovered earlier is closed later with the project
\* of its MAP: line
C3_Witness ==
    /\ ev.completed # <<>>
    /\ Closed.details.map = <<"alpha">>
    /\ Closed.details.start_time < now

\* C4 as stated: the next line of the pool removes every entry older than
\* the timeout and never closes it as a completion.
C4_StaleNeverCompleted ==
    [][LineStep =>
       LET p == ev'.log_name
           cur == current_requests[p]
       IN  \A k \in DOMAIN cur :
              Stale(cur[k], now) =>
                 /\ k \notin DOMAIN current_requests'[p]
                 /\ ev'.completed = <<>> \/ ev'.completed[1].key # k]_vars

\* C4, amended: a line that is not a "Request finished" line with elapsed > 0
\* removes every entry older than the timeout and changes neither
\* requests_total, the samples, the durable writes nor the slowest-list; a
\* "Request finished" line with elapsed > 0 does not sweep: it leaves a stale
\* entry as it is, unless the entry is the one it closes.
C4_StaleSweptUnlessFinished ==
    [][LineStep =>
       LET p == ev'.log_name
           cur == current_requests[p]
           nxt == current_requests'[p]
       IN  \A k \in DOMAIN cur :
              Stale(cur[k], now) =>
                 IF FinishedPositive(ev'.line)
                 THEN \/ /\ ev'.completed # <<>>
                         /\ ev'.completed[1].key = k
                         /\ k \notin DOMAIN nxt
                      \/ /\ k \in DOMAIN nxt
                         /\ nxt[k] = cur[k]
                 ELSE /\ k \notin DOMAIN nxt
                      /\ ev'.completed = <<>>
                      /\ log_stats'[p].requests_total
                            = log_stats[p].requests_total
                      /\ response_times'[p] = response_times[p]
                      /\ slowest_requests'[p] = slowest_requests[p]
                      /\ db_tasks' = db_tasks]_vars

\* C4 witness: a sweep dropped an entry of a pool that has counted no request
C4_Witness ==
    /\ ev.swept # {}
    /\ ev.completed = <<>>
    /\ log_stats[ev.log_name].requests_total = 0

\* C5: the key a completion closes is not in the pending set after the call;
\* after a call that reaches the sweep no entry of the pool is older than
\* the timeout; and a key that enters the pending set belongs to an entry
\* discovered by that call.
C5_RemovedKeysGone ==
    [][LineStep =>
       LET p == ev'.log_name
           cur == current_requests[p]
           nxt == current_requests'[p]
       IN  /\ ev'.completed # <<>> => ev'.completed[1].key \notin DOMAIN nxt
           /\ ~FinishedPositive(ev'.line) =>
                 \A k \in DOMAIN nxt : ~Stale(nxt[k], now)
           /\ \A k \in DOMAIN nxt \ DOMAIN cur : nxt[k].start_time = now]_vars

\* C5 witness: a sweep dropped an entry and kept a younger one
C5_Witness ==
    /\ ev.swept # {}
    /\ DOMAIN current_requests[ev.log_name] # {}

\* the step is a call that closed a GETMAP request
GetmapCompletion ==
    /\ LineStep
    /\ ev'.completed # <<>>
    /\ ev'.completed[1].details.request_type = <<"GETMAP">>

\* the first n elements of a sequence (all of them when it is shorter)
FirstN(seq, n) == SubSeq(seq, 1, IF Len(seq) < n THEN Len(seq) ELSE n)

\* C6: a pool's sample buffer never holds more than RESPONSE_TIMES_MAXLEN
\* samples; a completion appends its sample at the end, evicting exactly the
\* oldest sample when the buffer is full; no other line changes the buffer.
C6_SampleBufferFifo ==
    [][LineStep =>
       LET p == ev'.log_name
       IN  /\ \A q \in POOL_NAMES :
                 /\ Len(response_times'[q]) <= RESPONSE_TIMES_MAXLEN
                 /\ q # p => response_times'[q] = response_times[q]
           /\ IF FinishedPositive(ev'.line)
              THEN AppendedTo(response_times'[p], response_times[p],
                              <<now, ev'.line.ms>>, RESPONSE_TIMES_MAXLEN)
              ELSE response_times'[p] = response_times[p]]_vars

\* C6 witness: a full buffer whose oldest sample was evicted: the pool has
\* counted more completions than the buffer holds
C6_Witness ==
    \E p \in POOL_NAMES :
        /\ Len(response_times[p]) = RESPONSE_TIMES_MAXLEN
        /\ log_stats[p].requests_total > RESPONSE_TIMES_MAXLEN
        /\ response_times[p][1][2] # response_times[p][2][2]

\* C7: in every reachable state every pool's slowest-list holds at most
\* SLOWEST_REQUESTS_COUNT entries.
C7_SlowestAtMostK ==
    \A p \in POOL_NAMES : Len(slowest_requests[p]) <= SLOWEST_REQUESTS_COUNT

\* C7 witness: more GETMAP completions than K were recorded within one
\* window and the list holds K of them
C7_Witness ==
    /\ now = 0
    /\ Len(db_tasks) > SLOWEST_REQUESTS_COUNT
    /\ \E p \in POOL_NAMES :
          Len(slowest_requests[p]) = SLOWEST_REQUESTS_COUNT

\* C8: right after a GETMAP completion is recorded at time now, every entry
\* of the pool's slowest-list has a timestamp >= now - SLOWEST_REQUESTS_WINDOW.
C8_SlowestWithinWindow ==
    [][GetmapCompletion =>
       LET slow == slowest_requests'[ev'.log_name]
       IN  \A i \in 1..Len(slow) :
              slow[i][2] >= now - SLOWEST_REQUESTS_WINDOW]_vars

\* C8 witness: a GETMAP completion evicted an entry that had left the window:
\* the list holds only the new entry although it was not empty before
C8_Witness ==
    /\ ev.completed # <<>>
    /\ Closed.details.request_type = <<"GETMAP">>
    /\ Len(db_tasks) >= 2
    /\ Len(slowest_requests[ev.log_name]) = 1

\* C9 as stated: every slowest-list is strictly descending by elapsed time.
C9_SlowestStrictlyDescending ==
    \A p \in POOL_NAMES :
        \A i \in 1..(Len(slowest_requests[p]) - 1) :
            slowest_requests[p][i][1] > slowest_requests[p][i + 1][1]

\* C9, amended: every slowest-list is in non-increasing order of elapsed
\* time (entries of equal elapsed time stay, in the order they were added).
C9_SlowestNonIncreasing ==
    \A p \in POOL_NAMES :
        \A i \in 1..(Len(slowest_requests[p]) - 1) :
            /\ slowest_requests[p][i][1] >= slowest_requests[p][i + 1][1]
            /\ slowest_requests[p][i][1] = slowest_requests[p][i + 1][1]
                  => slowest_requests[p][i][2] <= slowest_requests[p][i + 1][2]

\* C9 witness: a slower request recorded later stands before a faster one
\* recorded earlier
C9_Witness ==
    \E p \in POOL_NAMES :
        /\ Len(slowest_requests[p]) = 2
        /\ slowest_requests[p][1][1] > slowest_requests[p][2][1]
        /\ slowest_requests[p][1][2] > slowest_requests[p][2][2]

\* C10: right after a GETMAP completion is recorded at time now, the elapsed
\* times of the pool's slowest-list are the K highest among all GETMAP
\* completions of the pool at times >= now - SLOWEST_REQUESTS_WINDOW (all of
\* them when there are fewer than K).
C10_SlowestIsTopKOfWindow ==
    [][GetmapCompletion =>
       LET p == ev'.log_name
       IN  ElapsedOf(slowest_requests'[p])
           = ElapsedOf(FirstN(done_getmap'[p], SLOWEST_REQUESTS_COUNT))]_vars

\* the samples of stat_samples in the window of the last summary
StatWindow ==
    {i \in 1..Len(stat_samples) :
        stat_samples[i][1] >= now - stat_result[1].seconds_ago}

\* the sum of the elapsed times of the samples with index in S
RECURSIVE ElapsedSum(_)
ElapsedSum(S) ==
    IF S = {} THEN 0
    ELSE LET i == CHOOSE j \in S : TRUE
         IN  stat_samples[i][2] + ElapsedSum(S \ {i})

\* the summary but for its average: zeroed when the window is empty, else
\* the count, the least and the greatest elapsed time of the window, and as
\* p95 the element of index k = floor(count * 0.95) < count in ascending
\* order: at most k samples are below it and more than k are not above it
StatsButAvg(out) ==
    LET W == StatWindow
        k == (Cardinality(W) * 95) \div 100
    IN  IF W = {} THEN out = ZeroStats
        ELSE /\ out.count = Cardinality(W)
             /\ \E i \in W : stat_samples[i][2] = out.min
             /\ \A i \in W : stat_samples[i][2] >= out.min
             /\ \E i \in W : stat_samples[i][2] = out.max
             /\ \A i \in W : stat_samples[i][2] <= out.max
             /\ k < out.count
             /\ Cardinality({i \in W : stat_samples[i][2] < out.p95}) <= k
             /\ Cardinality({i \in W : stat_samples[i][2] <= out.p95}) > k

\* C11 as stated: calculate_response_stats returns the zeroed summary for
\* an empty window, else count, min, max, the element of index
\* floor(count * 0.95) as p95, and the arithmetic mean of the window.
C11_StatsWithExactMean ==
    stat_result # <<>> =>
        LET out == stat_result[1].out
        IN  /\ StatsButAvg(out)
            /\ out.avg10 * Cardinality(StatWindow) = 10 * ElapsedSum(StatWindow)

\* C11, amended: as above, with the arithmetic mean rounded to one decimal:
\* avg is a multiple of 0.1 at a distance of at most 0.05 from the mean.
C11_StatsWithRoundedMean ==
    stat_result # <<>> =>
        LET out == stat_result[1].out
            n == Cardinality(StatWindow)
            d == out.avg10 * n - 10 * ElapsedSum(StatWindow)
        IN  /\ StatsButAvg(out)
            /\ 2 * d <= n
            /\ 2 * d >= 0 - n

\* C11 witness: a summary of more than 20 samples, some samples left out of
\* the window, whose p95 is not the maximum and whose mean is not a
\* multiple of 0.1
C11_Witness ==
    /\ stat_result # <<>>
    /\ stat_result[1].out.count > 20
    /\ stat_result[1].out.count < Len(stat_samples)
    /\ stat_result[1].out.p95 < stat_result[1].out.max
    /\ stat_result[1].out.avg10 * stat_result[1].out.count
          # 10 * ElapsedSum(StatWindow)

\* C12: no pool's sample buffer ever holds a sample with elapsed <= 0, and
\* a "Request finished" line whose elapsed time is 0 appends no sample.
C12_NoZeroSample ==
    [][LineStep =>
       /\ \A p \in POOL_NAMES :
             \A i \in 1..Len(response_times'[p]) : response_times'[p][i][2] > 0
       /\ ("finished" \in ev'.line.marks /\ ev'.line.ms = 0)
             => response_times' = response_times]_vars

\* C12 witness: a "Request finished" line with an identifier and elapsed 0
\* was handled by a pool that holds a sample
C12_Witness ==
    /\ "finished" \in ev.line.marks
    /\ ev.line.request_id # None
    /\ ev.line.ms = 0
    /\ response_times[ev.log_name] # <<>>

\* the line has none of the markers the handler looks for
Unrecognized(line) == line.marks = {}

\* C17 as stated: a line with none of the recognized markers, with or
\* without a bracketed number, leaves the pool's pending set, counters,
\* sample buffer, slowest-list and issue buffer unchanged.
C17_UnrecognizedChangesNothing ==
    [][(LineStep /\ Unrecognized(ev'.line)) =>
       LET p == ev'.log_name
       IN  /\ current_requests'[p] = current_requests[p]
           /\ log_stats'[p] = log_stats[p]
           /\ response_times'[p] = response_times[p]
           /\ slowest_requests'[p] = slowest_requests[p]
           /\ recent_issues'[p] = recent_issues[p]]_vars

\* C17, amended: such a line leaves the counters, the sample buffer, the
\* slowest-list and the issue buffer unchanged; in the pending set it
\* removes the entries older than the timeout, keeps the others as they
\* are, and, if it has a bracketed number for which no entry is open, adds
\* an empty entry for that number discovered now.
C17_UnrecognizedTouchesPendingOnly ==
    [][(LineStep /\ Unrecognized(ev'.line)) =>
       LET p == ev'.log_name
           r == ev'.line.request_id
           cur == current_requests[p]
           nxt == current_requests'[p]
           open == r # None /\ \E k \in DOMAIN cur : cur[k].raw_request_id = r
       IN  /\ log_stats'[p] = log_stats[p]
           /\ response_times'[p] = response_times[p]
           /\ slowest_requests'[p] = slowest_requests[p]
           /\ recent_issues'[p] = recent_issues[p]
           /\ db_tasks' = db_tasks
           /\ \A k \in DOMAIN cur :
                 IF Stale(cur[k], now) THEN k \notin DOMAIN nxt
                 ELSE k \in DOMAIN nxt /\ nxt[k] = cur[k]
           /\ \A k \in DOMAIN nxt \ DOMAIN cur :
                 /\ r # None
                 /\ ~open
                 /\ nxt[k] = FreshEntry(r, now)
           /\ (r # None /\ ~open) => DOMAIN nxt \ DOMAIN cur # {}]_vars

\* C17 witness: a line with a bracketed number and no marker was handled;
\* it swept an entry and left an entry open
C17_Witness ==
    /\ Unrecognized(ev.line)
    /\ ev.line.request_id # None
    /\ ev.log_name \in POOL_NAMES
    /\ ev.swept # {}
    /\ DOMAIN current_requests[ev.log_name] # {}

\* C13: after the file shrank with its inode unchanged, the next rotation
\* check puts the read position at the file's end, and every text the tail
\* hands to the parser is a whole line as the server wrote it, never a
\* fragment that starts inside a line, whatever the order of truncation,
\* appends, reads and checks.
C13_TruncationHandled ==
    [][/\ (tail.open /\ tail'.last_rotation_check # tail.last_rotation_check
            /\ disk_ops.shrunk)
          => tail'.pos = Len(log_file.data)
       /\ delivered' # delivered
          => delivered'[Len(delivered')].text \in TailTexts]_vars

\* the step is a retention sweep
CleanupStep == db'.sweeps = db.sweeps + 1

\* the rows of a table that a sweep at clock t with a retention of days
\* has to delete (written more than days before t) and has to keep (written
\* less than days before t)
OlderThan(rows, t, days) ==
    {i \in 1..Len(rows) :
        rows[i].at < t - days * SecondsPerDay * TicksPerSecond}

NewerThan(rows, t, days) ==
    {i \in 1..Len(rows) :
        rows[i].at > t - days * SecondsPerDay * TicksPerSecond}

\* the rows of a table that are gone / still there after the step
Gone(rows, after) == {i \in 1..Len(rows) : \A j \in 1..Len(after) : after[j] # rows[i]}

\* C14: a retention sweep deletes exactly the request rows older than the
\* requests retention and exactly the metric rows older than the metrics
\* retention; with a requests retention of 0 days every request row written
\* before the sweep is deleted.
C14_SweepDeletesExactlyOld ==
    [][CleanupStep =>
       LET gone_r == Gone(db.requests, db'.requests)
           gone_m == Gone(db.system_metrics, db'.system_metrics)
       IN  /\ OlderThan(db.requests, now, db_env.request_retention_days)
                 \subseteq gone_r
           /\ gone_r \cap NewerThan(db.requests, now,
                                    db_env.request_retention_days) = {}
           /\ OlderThan(db.system_metrics, now,
                        db_env.system_metrics_retention_days) \subseteq gone_m
           /\ gone_m \cap NewerThan(db.system_metrics, now,
                                    db_env.system_metrics_retention_days) = {}]_vars

\* the step is one run of save_request_to_db
SaveStep == db_done' = db_done + 1

\* C18: a run of save_request_to_db, failed or not, changes nothing of the
\* line handler's state and a failed one stores no row; a completion has
\* its in-memory effects (requests_total, sample, slowest-list entry of a
\* GETMAP request, key removal) and submits its write whatever became of
\* the writes before it; and after a failed write the handler still takes
\* the next line.
C18_WriteFailureAbsorbed ==
    [][/\ SaveStep =>
             /\ UNCHANGED <<vars_ingest, nlines, now>>
             /\ db'.last = "failed" => db'.requests = db.requests
             /\ db'.last = "saved" => Len(db'.requests) = Len(db.requests) + 1
       /\ (LineStep /\ ev'.completed # <<>>) =>
             LET p == ev'.log_name
                 getmap == ev'.completed[1].details.request_type = <<"GETMAP">>
             IN  /\ log_stats'[p].requests_total =
                       log_stats[p].requests_total + 1
                 /\ AppendedTo(response_times'[p], response_times[p],
                               <<now, ev'.line.ms>>, RESPONSE_TIMES_MAXLEN)
                 /\ ev'.completed[1].key \notin DOMAIN current_requests'[p]
                 /\ getmap => Len(db_tasks') = Len(db_tasks) + 1
                 /\ slowest_requests'[p] =
                       add_to_slowest(slowest_requests[p], ev'.line.ms, now,
                                      ev'.line.request_id,
                                      ev'.completed[1].details)
                 /\ UNCHANGED vars_db]_vars

\* C18 witness: the write of a first completion failed, and after it a
\* second GETMAP request was completed, counted and handed to a write
C18_Witness ==
    /\ db.last = "failed"
    /\ db.requests = <<>>
    /\ db_done = 1
    /\ Len(db_tasks) = 2
    /\ nlines > db.after_line
    /\ ev.completed # <<>>
    /\ log_stats[TailPool].requests_total = 2

\* the step is the start-up of log_monitoring_thread
StartStep ==
    /\ tasks["log_monitoring_thread"].state = "started"
    /\ tasks'["log_monitoring_thread"].state # "started"

\* C15: the start-up of log_monitoring_thread starts a tail for exactly the
\* pools whose log file exists then and goes on to its loop; a pool that got
\* no tail gets none by any later step, also when its file appears.
C15_MissingSourceSkipped ==
    [][IF StartStep
       THEN /\ \A p \in POOL_NAMES :
                  tasks'[p].state = IF p \in paths THEN "started" ELSE "none"
            /\ tasks'["log_monitoring_thread"].state = "sleeping"
       ELSE \A p \in POOL_NAMES :
               tasks[p].state = "none" => tasks'[p].state = "none"]_vars

\* C15 witness: one pool's file was missing at start-up and exists now, the
\* pool has no tail, the other pool's tail runs and the loop has emitted
C15_Witness ==
    \E p, q \in POOL_NAMES :
        /\ p \in paths
        /\ tasks[p].state = "none"
        /\ tasks[q].state = "running"
        /\ tasks["log_monitoring_thread"].state = "sleeping"
        /\ emitted.by = "log_monitoring_thread"

\* C19: an exception raised in an iteration of a task never ends the task:
\* the task goes on after a pause.
C19_ExceptionNeverEndsTask ==
    [][\A t \in TaskNames :
          tasks'[t].errors > tasks[t].errors => tasks'[t].state # "ended"]_vars

\* issues were recorded that no emit has carried to a client
IssueUnseen == observers > 0 /\ emitted.issues # recent_issues

\* C20: the issues recorded after the last client connected are emitted
\* again by a later push of one of the loops.
C20_IssuesPushedOnTick == IssueUnseen ~> ~IssueUnseen

\* C16: the journal stream leaves the journal only for the file, counting
\* one switch, both when journalctl is missing at the start and when its
\* process exits; and once on the file it stays on the file.
C16_JournalFallsBackOnce ==
    [][/\ (stream.source \in {"none", "journal"}
             /\ stream'.source \notin {stream.source, "journal"})
          => /\ stream'.source = "file"
             /\ stream'.switches = stream.switches + 1
       /\ stream.source = "file" => stream' = stream]_vars

\* the level the severity keywords of a line stand for: a warning keyword
\* makes a warning; an error keyword without a warning keyword an error
LevelOf(line) ==
    IF "WARN" \in line.marks THEN <<"WARNING">>
    ELSE IF line.marks \cap {"ERROR", "CRITICAL", "Fatal"} # {}
    THEN <<"ERROR">>
    ELSE <<>>

\* C21: a line with a warning keyword adds 1 to the warnings of the log it
\* is parsed for and appends one WARNING issue to that log's buffer; a line
\* with ERROR, CRITICAL or Fatal and no warning keyword adds 1 to the errors
\* and appends one ERROR issue; a line with none of them changes neither:
\* for a QGIS pool as for the PHP-FPM log.
C21_SeverityUniform ==
    [][LineStep =>
       LET p == ev'.log_name
           level == LevelOf(ev'.line)
       IN  /\ log_stats'[p].warnings = log_stats[p].warnings +
                 (IF level = <<"WARNING">> THEN 1 ELSE 0)
           /\ log_stats'[p].errors = log_stats[p].errors +
                 (IF level = <<"ERROR">> THEN 1 ELSE 0)
           /\ IF level = <<>> THEN recent_issues'[p] = recent_issues[p]
              ELSE AppendedTo(recent_issues'[p], recent_issues[p],
                              Issue(now, level[1], ev'.line),
                              RECENT_ISSUES_MAXLEN)]_vars

\* the open entries of a raw identifier
OpenOf(cur, r) == {k \in DOMAIN cur : cur[k].raw_request_id = r}

\* the step handles a "Request finished" line with an identifier and an
\* elapsed time, 0 included
FinishedStep ==
    /\ LineStep
    /\ ev'.log_name \in POOL_NAMES
    /\ ev'.line.request_id # None
    /\ "finished" \in ev'.line.marks
    /\ ev'.line.ms # NoMatch

\* C22: a "Request finished" line with an identifier and any elapsed time
\* closes the entry discovered last among the open entries of its
\* identifier (the one it creates when there is none) and removes its key:
\* one entry fewer of that identifier is open afterwards.
C22_FinishClosesMostRecent ==
    [][FinishedStep =>
       LET p == ev'.log_name
           r == ev'.line.request_id
           cur == current_requests[p]
           nxt == current_requests'[p]
           open == OpenOf(cur, r)
       IN  /\ ev'.completed # <<>>
           /\ ev'.completed[1].key \notin DOMAIN nxt
           /\ \A k \in open :
                 cur[k].start_time <= ev'.completed[1].details.start_time
           /\ Cardinality(OpenOf(nxt, r)) =
                 (IF open = {} THEN 1 ELSE Cardinality(open)) - 1]_vars

\* C23 as stated: after the handler returns for any line, no entry of the
\* pool is older than the timeout.
C23_NoStaleAfterAnyLine ==
    [][(LineStep /\ ev'.log_name \in POOL_NAMES) =>
       LET nxt == current_requests'[ev'.log_name]
       IN  \A k \in DOMAIN nxt : ~Stale(nxt[k], now)]_vars

\* C23, amended: after a line that is not a "Request finished" line with
\* elapsed > 0 no entry of the pool is older than the timeout and every
\* entry that was not older is still open; a "Request finished" line with
\* elapsed > 0 removes only the entry it closes, so the older entries stay.
C23_SweepOnAllButCompletions ==
    [][(LineStep /\ ev'.log_name \in POOL_NAMES) =>
       LET cur == current_requests[ev'.log_name]
           nxt == current_requests'[ev'.log_name]
       IN  IF FinishedPositive(ev'.line)
           THEN \A k \in DOMAIN cur :
                   k \in DOMAIN nxt \/
                      (ev'.completed # <<>> /\ ev'.completed[1].key = k)
           ELSE /\ \A k \in DOMAIN nxt : ~Stale(nxt[k], now)
                /\ \A k \in DOMAIN cur :
                      ~Stale(cur[k], now) => k \in DOMAIN nxt]_vars

\* C23 witness: a completion was handled (its sample bears the time of the
\* call) and an entry older than the timeout at that time is still open
C23_Witness ==
    /\ ev.completed # <<>>
    /\ LET p == ev.log_name
           t == response_times[p][Len(response_times[p])][1]
       IN  \E k \in DOMAIN current_requests[p] :
              Stale(current_requests[p][k], t)

\* the step handles a new-request detection: an accepted marker, or a MAP:
\* line for an identifier that has no open entry
DetectionStep ==
    /\ LineStep
    /\ ev'.log_name \in POOL_NAMES
    /\ ev'.line.request_id # None
    /\ \/ "accepted" \in ev'.line.marks
       \/ /\ "MAP:" \in ev'.line.marks
          /\ OpenOf(current_requests[ev'.log_name], ev'.line.request_id) = {}

\* C24: a new-request detection adds exactly one entry, discovered now, of
\* the line's identifier, with no field set but the one the line itself
\* carries, and leaves every entry that was open (and is not older than the
\* timeout) present and as it was, those of the same identifier included,
\* also when the identifier was detected before in the same millisecond.
C24_DetectionAddsOneEntry ==
    [][DetectionStep =>
       LET r == ev'.line.request_id
           cur == current_requests[ev'.log_name]
           nxt == current_requests'[ev'.log_name]
           added == DOMAIN nxt \ DOMAIN cur
       IN  /\ Cardinality(added) = 1
           /\ \A k \in added :
                 /\ nxt[k].raw_request_id = r
                 /\ nxt[k].start_time = now
                 /\ nxt[k].user = None
                 /\ nxt[k].layers = None
                 /\ nxt[k].request_type = None
                 /\ "MAP:" \notin ev'.line.marks => nxt[k].map = None
           /\ \A k \in DOMAIN cur :
                 ~Stale(cur[k], now) => k \in DOMAIN nxt /\ nxt[k] = cur[k]]_vars

\* the step handles a field line that carries a value and is not a
\* new-request detection
FieldStep ==
    /\ LineStep
    /\ ev'.log_name \in POOL_NAMES
    /\ ev'.line.request_id # None
    /\ ev'.line.marks \cap {"MAP:", "LIZMAP_USER:", "LAYERS:", "REQUEST:"} # {}
    /\ ~DetectionStep

\* entry e with the field of the line written into it
WithField(e, line) ==
    IF "MAP:" \in line.marks THEN [e EXCEPT !.map = ProjectName(line.map_path)]
    ELSE IF "LIZMAP_USER:" \in line.marks THEN [e EXCEPT !.user = line.user]
    ELSE IF "LAYERS:" \in line.marks THEN [e EXCEPT !.layers = line.layers]
    ELSE [e EXCEPT !.request_type = Upper(line.request)]

\* the open entry of identifier r discovered last
LastOpened(cur, r) ==
    CHOOSE k \in OpenOf(cur, r) :
        \A j \in OpenOf(cur, r) : cur[j].start_time <= cur[k].start_time

\* C25 as stated: a field line that is no detection writes its field into
\* the entry of its identifier discovered last and changes no other entry;
\* with no open entry of the identifier it creates one, which gets the
\* field.
C25_FieldWrittenToLastOpened ==
    [][FieldStep =>
       LET r == ev'.line.request_id
           cur == current_requests[ev'.log_name]
           nxt == current_requests'[ev'.log_name]
       IN  IF OpenOf(cur, r) = {}
           THEN /\ \E k \in DOMAIN nxt \ DOMAIN cur :
                      /\ DOMAIN nxt = DOMAIN cur \cup {k}
                      /\ nxt[k] = WithField(FreshEntry(r, now), ev'.line)
                /\ \A k \in DOMAIN cur : nxt[k] = cur[k]
           ELSE LET target == LastOpened(cur, r)
                IN  /\ DOMAIN nxt = DOMAIN cur
                    /\ nxt[target] = WithField(cur[target], ev'.line)
                    /\ \A k \in DOMAIN cur \ {target} : nxt[k] = cur[k]]_vars

\* C25, amended: the same, for the entries that are not older than the
\* timeout when the line is handled; those that are older, the entry
\* written to included, are gone after the call.
C25_FieldWrittenUnlessSwept ==
    [][FieldStep =>
       LET r == ev'.line.request_id
           cur == current_requests[ev'.log_name]
           nxt == current_requests'[ev'.log_name]
           kept == {k \in DOMAIN cur : ~Stale(cur[k], now)}
       IN  IF OpenOf(cur, r) = {}
           THEN /\ \E k \in DOMAIN nxt \ DOMAIN cur :
                      /\ DOMAIN nxt = kept \cup {k}
                      /\ nxt[k] = WithField(FreshEntry(r, now), ev'.line)
                /\ \A k \in kept : nxt[k] = cur[k]
           ELSE LET target == LastOpened(cur, r)
                IN  /\ DOMAIN nxt = kept
                    /\ target \in kept =>
                          nxt[target] = WithField(cur[target], ev'.line)
                    /\ \A k \in kept \ {target} : nxt[k] = cur[k]]_vars

\* C25 witness: a LIZMAP_USER: line was handled, two entries are open and
\* the one discovered last has the user while the other has none
C25_Witness ==
    /\ "LIZMAP_USER:" \in ev.line.marks
    /\ \E k, j \in DOMAIN current_requests[ev.log_name] :
          LET cur == current_requests[ev.log_name]
          IN  /\ cur[j].start_time < cur[k].start_time
              /\ cur[k].user = <<"alice">>
              /\ cur[j].user = None

\* the step is a run of save_request_to_db that the store itself made fail
\* (locked, disk): a failed write of a request whose project is set
StoreFailed ==
    /\ SaveStep
    /\ db'.last = "failed"
    /\ db_tasks[db_done + 1].project # None

\* C26: a completion with elapsed > 0 that closes a GETMAP entry submits one
\* write, and the write stores exactly one row of that request unless the
\* store itself fails, also when project, user or layers are unset.
C26_GetmapCompletionStored ==
    [][/\ GetmapCompletion => Len(db_tasks') = Len(db_tasks) + 1
       /\ (SaveStep /\ ~StoreFailed) =>
             /\ Len(db'.requests) = Len(db.requests) + 1
             /\ db'.requests[Len(db'.requests)].args
                   = db_tasks[db_done + 1]]_vars

\* C27: a pool's file tail is started only after tail_journalctl was
\* started for the pool and its journal proved unavailable: while the file
\* tail of the pool is started or runs, the pool's stream has made its
\* switch from the journal to the file.
C27_JournalTriedFirst ==
    tasks[TailPool].state \in {"started", "running"}
       => stream.source = "file" /\ stream.switches = 1

\* the rotation check runs and finds another inode at the path than the one
\* of the handle
ReopenStep ==
    /\ tail.open
    /\ tail'.last_rotation_check # tail.last_rotation_check
    /\ log_file.present
    /\ log_file.inode # tail.current_inode

StatFailStep ==
    /\ tail.open
    /\ tail'.last_rotation_check # tail.last_rotation_check
    /\ ~log_file.present

\* C29: a rotation check whose os.stat fails leaves the task running with
\* its handle, position, cached inode and size and line counter as they
\* were and delivers nothing; only the time of the last check moves, so the
\* check is due again one interval later; the next line delivered through
\* the same handle is the one at the position held when the check failed.
C29_StatFailureKeepsTail ==
    [][/\ StatFailStep
          => /\ tail' = [tail EXCEPT !.last_rotation_check = now]
             /\ delivered' = delivered
       /\ \A k \in 1..Len(disk_ops'.stat_errors) :
             LET e == disk_ops'.stat_errors[k]
             IN  /\ tail'.open
                 /\ (/\ Len(delivered') > e.delivered
                     /\ delivered'[e.delivered + 1].inode = e.inode)
                    => delivered'[e.delivered + 1].at = e.pos]_vars

\* a check failed while the file was moved away, a later check ran, the
\* file is back at the path, and the line delivered next was read at the
\* position held when the check failed
C29_Witness ==
    /\ disk_ops.stat_errors # <<>>
    /\ tail.open
    /\ tail.last_rotation_check > disk_ops.stat_errors[1].at
    /\ log_file.present
    /\ log_file.inode = disk_ops.stat_errors[1].inode
    /\ tail.current_inode = disk_ops.stat_errors[1].inode
    /\ Len(delivered) > disk_ops.stat_errors[1].delivered
    /\ delivered[disk_ops.stat_errors[1].delivered + 1].at
          = disk_ops.stat_errors[1].pos

\* C30: whatever the connects and disconnects, each of monitoring_thread,
\* log_monitoring_thread and cleanup_thread and the tail of each pool is
\* started at most once, and a connect that is not the first one starts
\* nothing and changes no task.
C30_TasksStartedOnce ==
    /\ [](\A t \in TaskNames : tasks[t].starts <= 1)
    /\ [][(observers' > observers /\ observers >= 1)
             => tasks' = tasks /\ active' = active]_vars

\* two clients have connected and one has left; the three threads and the
\* tail of a pool were each started once, and the tail runs
C30_Witness ==
    /\ observers = 2
    /\ clients = 1
    /\ \A t \in Threads : tasks[t].starts = 1
    /\ tasks[TailPool].starts = 1
    /\ tasks[TailPool].state = "running"

\* the state kept for pool p
PoolState(p) ==
    <<current_requests[p], response_times[p], slowest_requests[p],
      log_stats[p], recent_issues[p]>>

\* a client connects
AttachStep == observers' = observers + 1

\* log_monitoring_thread finishes an iteration of its push loop
AggregationStep ==
    /\ tasks["log_monitoring_thread"].state = "awake"
    /\ tasks'["log_monitoring_thread"].state = "sleeping"

\* C31: an iteration of the aggregation loop and the connect handler leave
\* the pending requests, counters, samples, slowest list and issues of every
\* pool as they were; the state of a pool changes only in a step that
\* handles a line of that pool.
C31_PoolStateOwnedByIngestion ==
    [][/\ (AttachStep \/ AggregationStep)
          => /\ \A p \in POOL_NAMES : PoolState(p)' = PoolState(p)
             /\ log_stats' = log_stats
             /\ recent_issues' = recent_issues
       /\ \A p \in POOL_NAMES :
             PoolState(p)' # PoolState(p)
                => /\ nlines' = nlines + 1
                   /\ ev'.log_name = p
                   /\ tasks[p].state = "running"]_vars

\* a client attached after an issue was recorded for the pool, and the
\* aggregation loop has pushed since; the issue is still in the buffer
C31_Witness ==
    /\ emitted.issues[TailPool] # <<>>
    /\ emitted.by = "log_monitoring_thread"
    /\ recent_issues[TailPool] # <<>>
    /\ log_stats[TailPool].warnings > 0

\* the counters and the issues kept for a log
LogState(p) == <<log_stats[p], recent_issues[p]>>

\* the lines handled for pool p with their times, in order
HistoryOf(p) ==
    LET mine == SelectSeq(delivered, LAMBDA d : d.log_name = p)
    IN  [i \in 1..Len(mine) |-> <<mine[i].line, mine[i].time>>]

\* C32: a line handled for one log leaves the pending requests, counters,
\* samples, slowest list and issues of every other log as they were; two
\* pools that were handed the same lines at the same times are in the same
\* state, however their lines were interleaved.
C32_PoolsIndependent ==
    /\ [][LineStep
            => /\ \A q \in POOL_NAMES \ {ev'.log_name} :
                     PoolState(q)' = PoolState(q)
               /\ \A q \in LogNames \ {ev'.log_name} :
                     LogState(q)' = LogState(q)]_vars
    /\ [](\A p, q \in POOL_NAMES :
             HistoryOf(p) = HistoryOf(q) => PoolState(p) = PoolState(q))

\* both pools were handed an accepted marker and a completion of the same
\* request at the same times, the lines of one pool between those of the
\* other
C32_Witness ==
    /\ Len(delivered) = 4
    /\ delivered[1].log_name = "qgis-pool1"
    /\ delivered[2].log_name = "qgis-pool2"
    /\ delivered[3].log_name = "qgis-pool2"
    /\ delivered[4].log_name = "qgis-pool1"
    /\ HistoryOf("qgis-pool1") = HistoryOf("qgis-pool2")
    /\ \A p \in POOL_NAMES : log_stats[p].requests_total = 1

\* every run flag is cleared
Stopped == \A t \in Threads : ~active[t]

\* C33: once the run flags are cleared (and stay so), every task that was
\* started eventually leaves its loop and ends.
C33_StoppedTasksEnd ==
    Stopped ~> (\/ ~Stopped
                \/ \A t \in TaskNames : tasks[t].state \in {"none", "ended"})

\* C34: the count a retention sweep reports is the number of rows it
\* removed from the two tables.
C34_ReportedCountIsRemoved ==
    [][CleanupStep => db'.reported = db'.removed]_vars

\* the smaller of two numbers
Smaller(a, b) == IF a < b THEN a ELSE b

\* C35: no stats_update, from the aggregation loop or from the connect
\* handler, is taken while a tail is inside the line handler: in every
\* update the number of samples of a pool is the one that goes with its
\* request counter, never that of a sample appended and not yet counted.
C35_SnapshotsBetweenLines ==
    /\ [][emitted'.stats # emitted.stats
            => \A p \in POOL_NAMES : tasks[p].state # "in_line"]_vars
    /\ [](\A p \in POOL_NAMES :
             emitted.stats[p].count
                = Smaller(emitted.stats[p].total_requests,
                          RESPONSE_TIMES_MAXLEN))

\* the aggregation loop has pushed the stats of a pool after a completion
\* line of that pool went through both halves of the handler
C35_Witness ==
    /\ emitted.by = "log_monitoring_thread"
    /\ emitted.stats[TailPool].total_requests >= 1
    /\ emitted.stats[TailPool].count >= 1
    /\ nlines >= 2

\* C36: for every pool the sample buffer holds min(requests_total,
\* RESPONSE_TIMES_MAXLEN) samples; requests_total never decreases, and it
\* grows, by one, exactly in the steps that append a sample.
C36_TotalCountsSamples ==
    /\ [](\A p \in POOL_NAMES :
             Len(response_times[p])
                = Smaller(log_stats[p].requests_total, RESPONSE_TIMES_MAXLEN))
    /\ [][\A p \in POOL_NAMES :
             /\ log_stats'[p].requests_total >= log_stats[p].requests_total
             /\ (LineStep /\ ev'.log_name = p /\ IsCompletion(ev'.line))
                => /\ log_stats'[p].requests_total
                        = log_stats[p].requests_total + 1
                   /\ response_times'[p]
                        = DequeAppend(response_times[p],
                                      <<now, ev'.line.ms>>,
                                      RESPONSE_TIMES_MAXLEN)
             /\ ~(LineStep /\ ev'.log_name = p /\ IsCompletion(ev'.line))
                => /\ log_stats'[p].requests_total
                        = log_stats[p].requests_total
                   /\ response_times'[p] = response_times[p]]_vars

\* a pool has completed more requests than its sample buffer holds
C36_Witness ==
    /\ log_stats[TailPool].requests_total > RESPONSE_TIMES_MAXLEN
    /\ Len(response_times[TailPool]) = RESPONSE_TIMES_MAXLEN
\* the step appends exactly one issue to the buffer of log p
OneIssueAppended(p) ==
    /\ recent_issues'[p] # <<>>
    /\ recent_issues'[p] =
          DequeAppend(recent_issues[p],
                      recent_issues'[p][Len(recent_issues'[p])],
                      RECENT_ISSUES_MAXLEN)

\* C37: a processed line appends at most one issue and adds 1 to at most
\* one of warnings and errors of its log (nothing of another log changes);
\* a line with a warning keyword and an error keyword is recorded as one
\* WARNING only.  So in every state the buffer of a log holds
\* min(warnings + errors, RECENT_ISSUES_MAXLEN) issues, never more than
\* RECENT_ISSUES_MAXLEN, and every stored message has at most 200
\* characters.
C37_OneIssuePerLine ==
    /\ [](\A p \in LogNames :
            /\ Len(recent_issues[p]) =
                 Smaller(log_stats[p].warnings + log_stats[p].errors,
                         RECENT_ISSUES_MAXLEN)
            /\ \A i \in 1..Len(recent_issues[p]) :
                 recent_issues[p][i].message <= MESSAGE_CHARS)
    /\ [][LineStep =>
           LET p == ev'.log_name
               line == ev'.line
               dw == log_stats'[p].warnings - log_stats[p].warnings
               de == log_stats'[p].errors - log_stats[p].errors
           IN  /\ dw \in {0, 1} /\ de \in {0, 1} /\ dw + de <= 1
               /\ IF dw + de = 1 THEN OneIssueAppended(p)
                  ELSE recent_issues'[p] = recent_issues[p]
               /\ "WARN" \in line.marks =>
                     /\ dw = 1
                     /\ recent_issues'[p][Len(recent_issues'[p])] =
                           Issue(now, "WARNING", line)
               /\ \A q \in LogNames \ {p} :
                     /\ log_stats'[q] = log_stats[q]
                     /\ recent_issues'[q] = recent_issues[q]]_vars

\* a line of more than 200 characters with a warning and an error keyword
\* was handled for a log whose buffer was already full and which had
\* counted an error: the line is the last issue, a WARNING of 200
\* characters, and warnings + errors exceeds the buffer's capacity
C37_Witness ==
    /\ nlines > 0
    /\ ev.line.marks = {"WARN", "ERROR"}
    /\ ev.line.chars > MESSAGE_CHARS
    /\ LET p == ev.log_name
           n == Len(recent_issues[p])
       IN  /\ log_stats[p].errors >= 1
           /\ log_stats[p].warnings + log_stats[p].errors >
                 RECENT_ISSUES_MAXLEN
           /\ n = RECENT_ISSUES_MAXLEN
           /\ recent_issues[p][n].level = "WARNING"
           /\ recent_issues[p][n].message = MESSAGE_CHARS

\* the numbers of the lines, written while the tail had the file open,
\* that a delivered text is
WrittenAs(text) ==
    {k \in 1..disk_ops.appends : text = WrittenLine(k, "tailed")}

\* C38: the texts handed to the parser are lines written to the path after
\* the tail opened it, each at most once and in the order of writing:
\* every delivered text is one of those lines, and of two deliveries the
\* earlier one is the line written earlier.
C38_DeliveredInWrittenOrder ==
    /\ \A i \in 1..Len(delivered) : WrittenAs(delivered[i].text) # {}
    /\ \A i, j \in 1..Len(delivered) :
          i < j => \A a \in WrittenAs(delivered[i].text),
                      b \in WrittenAs(delivered[j].text) : a < b

\* the rotation check runs to its end: os.stat found a file at the path
CheckedStep ==
    /\ tail.open
    /\ tail'.last_rotation_check # tail.last_rotation_check
    /\ log_file.present

\* C39: after a rotation check that ran to its end the read position is at
\* most the size of the file and the cached size is the size the check
\* saw, whatever appends and truncations came before the check.
C39_CursorWithinFileAfterCheck ==
    [][CheckedStep =>
         /\ tail'.pos <= Len(log_file.data)
         /\ tail'.current_size = Len(log_file.data)]_vars

\* C40: a "Request finished" line with an identifier and an elapsed time
\* > 0 always finds an entry of its identifier to close (the one the same
\* call created when none was open): the branch without a matching key is
\* not taken, and after the line no more entries are open than before it.
C40_CompletionFindsKey ==
    [][(LineStep /\ ev'.log_name \in POOL_NAMES /\ IsCompletion(ev'.line)) =>
         LET p == ev'.log_name
         IN  /\ ev'.completed # <<>>
             /\ ev'.completed[1].details.raw_request_id =
                   ev'.line.request_id
             /\ ev'.completed[1].key \notin DOMAIN current_requests'[p]
             /\ Cardinality(DOMAIN current_requests'[p]) <=
                   Cardinality(DOMAIN current_requests[p])]_vars

\* the first line handled was a completion that is no accepted marker: no
\* entry was open, the call created one under the key of this instant and
\* closed it, and none is open
C40_Witness ==
    /\ nlines = 1
    /\ IsCompletion(ev.line)
    /\ "accepted" \notin ev.line.marks
    /\ ev.completed # <<>>
    /\ ev.completed[1].key = TrackingKey(ev.line.request_id, now)
    /\ DOMAIN current_requests[ev.log_name] = {}

====
